---- MODULE Spec2Model ----
(***************************************************************************)
(* A model of the Substance document core: the node graph, the annotation  *)
(* index, the staging document, the Document facade with its transaction,  *)
(* commit and undo/redo machinery.                                         *)
(***************************************************************************)
EXTENDS Integers, Sequences, FiniteSets, TLC

VARIABLES
  data,           \* Document.data: the primary graph (nodes + annotation index)
  stage,          \* Document.stage: the staging document (graph, ops, before)
  isTransacting,  \* Document.isTransacting
  done,           \* Document.done, most recent change last
  undone,         \* Document.undone
  pc,             \* whether a Document.transaction call is inside its callback
  snap            \* what the primary document held when the open transaction began

vars == <<data, stage, isTransacting, done, undone, pc, snap>>

---------------------------------------------------------------------------
(* Bounds of the model *)

\* longest text content a call may produce
MaxLen == 1
\* most operations recorded in one transaction
MaxOps == 2
\* most changes held in done and undone together
MaxHist == 1

---------------------------------------------------------------------------
(* Values *)

TextId == "t1"
AnnoId == "a1"
P1 == <<TextId, "content">>

\* the plain object PathAdapter creates for a missing intermediate level
Blank == [id |-> "", type |-> "", content |-> <<>>, path |-> <<>>, range |-> <<>>, nodes |-> <<>>]

TextNode(id, s) ==
  [id |-> id, type |-> "text", content |-> s, path |-> <<>>, range |-> <<>>, nodes |-> <<>>]
AnnoNode(id, p) ==
  [id |-> id, type |-> "annotation", content |-> <<>>, path |-> p, range |-> <<0, 1>>, nodes |-> <<>>]
\* a container: nodes is the sequence of the ids of its children
ContainerNode(id, ids) ==
  [id |-> id, type |-> "container", content |-> <<>>, path |-> <<>>, range |-> <<>>, nodes |-> ids]

\* var v = x; body(v): x is evaluated once and body sees its value
Then(x, body(_)) == CHOOSE out \in {body(v) : v \in {x}} : TRUE

Put(f, k, v) == [x \in (DOMAIN f) \cup {k} |-> IF x = k THEN v ELSE f[x]]
Drop(f, k) == [x \in (DOMAIN f) \ {k} |-> f[x]]

PropGet(node, prop) ==
  IF prop = "path" THEN node.path ELSE IF prop = "range" THEN node.range
  ELSE IF prop = "nodes" THEN node.nodes ELSE node.content
PropSet(node, prop, v) ==
  IF prop = "path" THEN [node EXCEPT !.path = v]
  ELSE IF prop = "range" THEN [node EXCEPT !.range = v]
  ELSE IF prop = "nodes" THEN [node EXCEPT !.nodes = v]
  ELSE [node EXCEPT !.content = v]

---------------------------------------------------------------------------
(* AnnotationIndex: byType (type, id) and byPath (path, id) *)

AnnotationIndex_select(g, id) == id \in DOMAIN g.nodes /\ g.nodes[id].type = "annotation"

AnnotationIndex_create(g, anno) ==
  [g EXCEPT !.byType = @ \cup {<<anno.type, anno.id>>},
            !.byPath = @ \cup {<<anno.path, anno.id>>}]

AnnotationIndex_delete(g, anno) ==
  [g EXCEPT !.byType = @ \ {<<anno.type, anno.id>>},
            !.byPath = @ \ {<<anno.path, anno.id>>}]

AnnotationIndex_update(g, node, path, newValue, oldValue) ==
  IF node.type = "annotation" /\ path[2] = "path"
  THEN AnnotationIndex_create(
         AnnotationIndex_delete(g, [id |-> node.id, type |-> node.type, path |-> oldValue]),
         node)
  ELSE g

\* an optional argument: given or left out
Arg(n) == [given |-> TRUE, n |-> n]
Omitted == [given |-> FALSE, n |-> 0]

\* if (start), if (sEnd): undefined and 0 are both falsy
Truthy(a) == a.given /\ a.n # 0

\* what get pushes for annotation id: this.get(id), the list get builds from
\* what byPath holds under the single key id; not the node. under is exact
\* when the index holds nothing there, as for paths that start with the id
\* of a text node.
AnnotationIndex_item(g, id) ==
  [node |-> FALSE, id |-> "",
   under |-> {e \in g.byPath : e[1] # <<>> /\ Head(e[1]) = id}]

\* the range of the annotation the index holds under id
IndexedRange(g, id) == IF id \in DOMAIN g.nodes THEN g.nodes[id].range ELSE <<0, 0>>

\* get(path, start, end) for a full property path: the result holds one item
\* for each annotation that passes, here keyed by the annotation's id
AnnotationIndex_get(g, path, start, end) ==
  LET annotations == {e[2] : e \in {x \in g.byPath : x[1] = path}}
      passed == IF Truthy(start)
                THEN {id \in annotations :
                        /\ IndexedRange(g, id)[2] >= start.n
                        /\ Truthy(end) => IndexedRange(g, id)[1] <= end.n}
                ELSE annotations
  IN [id \in passed |-> AnnotationIndex_item(g, id)]

\* a selection: a property selection has a path and two offsets; container
\* and table selections answer isPropertySelection() with false
PropertySelection(path, startOffset, endOffset) ==
  [kind |-> "property", path |-> path, startOffset |-> startOffset, endOffset |-> endOffset]
OtherSelection(kind) == [kind |-> kind, path |-> <<>>, startOffset |-> 0, endOffset |-> 0]

\* AnnotationIndex.filterByType(type): an item passes when it is a node of
\* that type
AnnotationIndex_filterByType(g, items, type) ==
  [id \in {i \in DOMAIN items : items[i].node /\ g.nodes[items[i].id].type = type} |-> items[id]]

\* getAnnotationsForSelection(sel, options); type is options.type, "" when
\* no type is given
Document_getAnnotationsForSelection(g, sel, type) ==
  IF sel.kind # "property" THEN AnnotationIndex_get(g, <<>>, Omitted, Omitted)
  ELSE IF type # ""
  THEN AnnotationIndex_filterByType(
         g, AnnotationIndex_get(g, sel.path, Arg(sel.startOffset), Arg(sel.endOffset)), type)
  ELSE AnnotationIndex_get(g, sel.path, Arg(sel.startOffset), Arg(sel.endOffset))

---------------------------------------------------------------------------
(* PathAdapter and Graph *)

EmptyGraph == [nodes |-> [x \in {} |-> Blank], byType |-> {}, byPath |-> {}]

Graph_contains(g, id) == id \in DOMAIN g.nodes

\* nodes.get(path): undefined (here the empty value) below a missing level
PathAdapter_get(g, path) ==
  IF path[1] \in DOMAIN g.nodes THEN PropGet(g.nodes[path[1]], path[2]) ELSE <<>>

\* nodes.set(path, value): a missing intermediate level is created
PathAdapter_set(g, path, value) ==
  LET base == IF path[1] \in DOMAIN g.nodes THEN g.nodes[path[1]] ELSE Blank
  IN [g EXCEPT !.nodes = Put(@, path[1], PropSet(base, path[2], value))]

\* Node.attach / Node.detach are methods of a node instance: the hook throws
\* for undefined and for a plain object.
DidDeleteNodeThrows(g, id) == id \notin DOMAIN g.nodes \/ g.nodes[id].type = ""

\* the node types registered with the schema's node factory
NodeTypes == {"text", "annotation", "container"}

\* factory.create(type, data): nothing for a type that is not registered
NodeFactory_create(nodeData) == nodeData.type \in NodeTypes

\* one call the graph makes to a hook or to an index, with its arguments
Notice(what, id, path, newValue, oldValue) ==
  [what |-> what, id |-> id, path |-> path, newValue |-> newValue, oldValue |-> oldValue]

\* create that overwrites a node already present
Graph_create_replaces(g, nodeData) ==
  IF ~NodeFactory_create(nodeData) \/ nodeData.id = "" \/ nodeData.type = ""
  THEN [g |-> g, ok |-> FALSE, told |-> <<>>]
  ELSE LET g1 == [g EXCEPT !.nodes = Put(@, nodeData.id, nodeData)]
       IN IF AnnotationIndex_select(g1, nodeData.id)
          THEN [g |-> AnnotationIndex_create(g1, nodeData), ok |-> TRUE,
                told |-> <<Notice("didCreateNode", nodeData.id, <<>>, <<>>, <<>>),
                           Notice("index.create", nodeData.id, <<>>, <<>>, <<>>)>>]
          ELSE [g |-> g1, ok |-> TRUE,
                told |-> <<Notice("didCreateNode", nodeData.id, <<>>, <<>>, <<>>)>>]

\* told: the hook and index calls made, in order
Graph_create(g, nodeData) ==
  IF ~NodeFactory_create(nodeData) \/ Graph_contains(g, nodeData.id)
       \/ nodeData.id = "" \/ nodeData.type = ""
  THEN [g |-> g, ok |-> FALSE, told |-> <<>>]
  ELSE LET g1 == [g EXCEPT !.nodes = Put(@, nodeData.id, nodeData)]
       IN IF AnnotationIndex_select(g1, nodeData.id)
          THEN [g |-> AnnotationIndex_create(g1, nodeData), ok |-> TRUE,
                told |-> <<Notice("didCreateNode", nodeData.id, <<>>, <<>>, <<>>),
                           Notice("index.create", nodeData.id, <<>>, <<>>, <<>>)>>]
          ELSE [g |-> g1, ok |-> TRUE,
                told |-> <<Notice("didCreateNode", nodeData.id, <<>>, <<>>, <<>>)>>]

\* delete on a graph whose didDeleteNode hook throws when hookThrows
Graph_deleteWith(g, nodeId, hookThrows) ==
  LET g1 == [g EXCEPT !.nodes = Drop(@, nodeId)]
  IN IF hookThrows
     THEN [g |-> g1, ok |-> FALSE,
           told |-> <<Notice("didDeleteNode", nodeId, <<>>, <<>>, <<>>)>>]
     ELSE IF AnnotationIndex_select(g, nodeId)
     THEN [g |-> AnnotationIndex_delete(g1, g.nodes[nodeId]), ok |-> TRUE,
           told |-> <<Notice("didDeleteNode", nodeId, <<>>, <<>>, <<>>),
                      Notice("index.delete", nodeId, <<>>, <<>>, <<>>)>>]
     ELSE [g |-> g1, ok |-> TRUE,
           told |-> <<Notice("didDeleteNode", nodeId, <<>>, <<>>, <<>>)>>]

\* the graph of a Document: the hook is Document._didDeleteNode
Graph_delete(g, nodeId) == Graph_deleteWith(g, nodeId, DidDeleteNodeThrows(g, nodeId))

\* a graph constructed without options: the hook is the empty function
BareGraph_delete(g, nodeId) == Graph_deleteWith(g, nodeId, FALSE)

\* set that hands the index the old and the new value in the wrong order
Graph_set_swapped(g, path, newValue) ==
  LET oldValue == PathAdapter_get(g, path)
      g1 == PathAdapter_set(g, path, newValue)
  IN IF AnnotationIndex_select(g, path[1])
     THEN [g |-> AnnotationIndex_update(g1, g1.nodes[path[1]], path, oldValue, newValue),
           ok |-> TRUE, old |-> oldValue,
           told |-> <<Notice("index.update", path[1], path, oldValue, newValue)>>]
     ELSE [g |-> g1, ok |-> TRUE, old |-> oldValue, told |-> <<>>]

\* old: the value returned
Graph_set(g, path, newValue) ==
  LET oldValue == PathAdapter_get(g, path)
      g1 == PathAdapter_set(g, path, newValue)
  IN IF AnnotationIndex_select(g, path[1])
     THEN [g |-> AnnotationIndex_update(g1, g1.nodes[path[1]], path, newValue, oldValue),
           ok |-> TRUE, old |-> oldValue,
           told |-> <<Notice("index.update", path[1], path, newValue, oldValue)>>]
     ELSE [g |-> g1, ok |-> TRUE, old |-> oldValue, told |-> <<>>]

\* init() of a graph constructed with options.seed = seed, a sequence of
\* node data: a new, empty path adapter for the nodes, then create for each
\* seed node; this.indexes is left as it is
RECURSIVE Graph_seed(_, _)
Graph_seed(g, seed) ==
  IF seed = <<>> THEN g ELSE Graph_seed(Graph_create(g, Head(seed)).g, Tail(seed))

Graph_init(g, seed) == Graph_seed([g EXCEPT !.nodes = EmptyGraph.nodes], seed)

Graph_reset(g, seed) == Graph_init(g, seed)

---------------------------------------------------------------------------
(* Operations (ObjectOperation) and their inverses *)

NoDiff == [kind |-> "", pos |-> 0, str |-> <<>>]

Op(type, path, node, val, orig, diff) ==
  [type |-> type, path |-> path, node |-> node, val |-> val, orig |-> orig, diff |-> diff]

ObjectOperation_Create(nodeData) == Op("create", <<nodeData.id>>, nodeData, <<>>, <<>>, NoDiff)
ObjectOperation_Delete(nodeData) == Op("delete", <<nodeData.id>>, nodeData, <<>>, <<>>, NoDiff)
ObjectOperation_Set(path, oldValue, newValue) == Op("set", path, Blank, newValue, oldValue, NoDiff)
ObjectOperation_Update(path, diff) == Op("update", path, Blank, <<>>, <<>>, diff)

Min(a, b) == IF a < b THEN a ELSE b

\* s[0..n) and s[n..), clamped like String.substring
Prefix(s, n) == SubSeq(s, 1, Min(n, Len(s)))
Suffix(s, n) == IF n >= Len(s) THEN <<>> ELSE SubSeq(s, n + 1, Len(s))

\* the diff of an update, with the removed slice captured for a delete
InsertDiff(offset, value) == [kind |-> "insert", pos |-> offset, str |-> value]
DeleteDiff(s, start, end) ==
  [kind |-> "delete", pos |-> start, str |-> Suffix(Prefix(s, end), start)]

ApplyDiff(s, diff) ==
  IF diff.kind = "insert"
  THEN Prefix(s, diff.pos) \o diff.str \o Suffix(s, diff.pos)
  ELSE Prefix(s, diff.pos) \o Suffix(s, diff.pos + Len(diff.str))

InvertDiff(diff) ==
  [diff EXCEPT !.kind = IF diff.kind = "insert" THEN "delete" ELSE "insert"]

ObjectOperation_invert(op) ==
  CASE op.type = "create" -> [op EXCEPT !.type = "delete"]
    [] op.type = "delete" -> [op EXCEPT !.type = "create"]
    [] op.type = "set"    -> [op EXCEPT !.val = op.orig, !.orig = op.val]
    [] OTHER              -> [op EXCEPT !.diff = InvertDiff(op.diff)]

---------------------------------------------------------------------------
(* Graph.update: a diff given as a plain object or as an operation *)

\* a diff object: del/ins say which parts it has; start, end belong to the
\* delete part of a string diff, offset to an insert part and to the delete
\* part of a sequence diff; value is the text inserted or, for a sequence,
\* the one element inserted (wrapped); op is the operation when isOperation
Diff(isOperation, del, ins, start, end, offset, value, op) ==
  [isOperation |-> isOperation, del |-> del, ins |-> ins, start |-> start,
   end |-> end, offset |-> offset, value |-> value, op |-> op]

StringDelete(start, end) == Diff(FALSE, TRUE, FALSE, start, end, 0, <<>>, NoDiff)
StringInsert(offset, value) == Diff(FALSE, FALSE, TRUE, 0, 0, offset, value, NoDiff)
ArrayDelete(offset) == Diff(FALSE, TRUE, FALSE, 0, 0, offset, <<>>, NoDiff)
ArrayInsert(offset, element) == Diff(FALSE, FALSE, TRUE, 0, 0, offset, <<element>>, NoDiff)
EmptyDiff == Diff(FALSE, FALSE, FALSE, 0, 0, 0, <<>>, NoDiff)
OperationDiff(op) == Diff(TRUE, FALSE, FALSE, 0, 0, 0, <<>>, op)

\* the properties a node of its type is created with
Declared(node, prop) ==
  \/ node.type = "text" /\ prop = "content"
  \/ node.type = "annotation" /\ prop \in {"path", "range"}

\* isString / isArray of the value at the path; a property a node was not
\* created with and that reads empty is undefined
ValueKind(g, path) ==
  IF ~Graph_contains(g, path[1]) THEN "undefined"
  ELSE IF PropGet(g.nodes[path[1]], path[2]) = <<>> /\ ~Declared(g.nodes[path[1]], path[2])
  THEN "undefined"
  ELSE IF path[2] = "content" THEN "string"
  ELSE "array"

\* oldValue.split('').splice(start, end - start).join(''): splice returns
\* the elements it removed
SpliceRemoved(s, start, end) == Suffix(Prefix(s, end), start)

\* the string branch; ok is FALSE where the code throws
Graph_update_string(oldValue, diff) ==
  IF diff.del THEN [ok |-> TRUE, v |-> SpliceRemoved(oldValue, diff.start, diff.end)]
  ELSE IF diff.ins
  THEN [ok |-> TRUE, v |-> Prefix(oldValue, diff.offset) \o diff.value \o Suffix(oldValue, diff.offset)]
  ELSE [ok |-> FALSE, v |-> oldValue]

\* a sequence delete that removes everything from offset on
Graph_update_array_truncates(oldValue, diff) ==
  IF diff.del
  THEN [ok |-> TRUE, v |-> Prefix(oldValue, diff.offset)]
  ELSE IF diff.ins
  THEN [ok |-> TRUE, v |-> Prefix(oldValue, diff.offset) \o diff.value \o Suffix(oldValue, diff.offset)]
  ELSE [ok |-> FALSE, v |-> oldValue]

\* a diff without delete and insert part changes nothing and is accepted
Graph_update_array_lenient(oldValue, diff) ==
  IF diff.del
  THEN [ok |-> TRUE, v |-> Prefix(oldValue, diff.offset) \o Suffix(oldValue, diff.offset + 1)]
  ELSE IF diff.ins
  THEN [ok |-> TRUE, v |-> Prefix(oldValue, diff.offset) \o diff.value \o Suffix(oldValue, diff.offset)]
  ELSE [ok |-> TRUE, v |-> oldValue]

\* the sequence branch, on a copy of the old value: splice(pos, 1) and
\* splice(pos, 0, val)
Graph_update_array(oldValue, diff) ==
  IF diff.del
  THEN [ok |-> TRUE, v |-> Prefix(oldValue, diff.offset) \o Suffix(oldValue, diff.offset + 1)]
  ELSE IF diff.ins
  THEN [ok |-> TRUE, v |-> Prefix(oldValue, diff.offset) \o diff.value \o Suffix(oldValue, diff.offset)]
  ELSE [ok |-> FALSE, v |-> oldValue]

\* the new value for a plain diff
Graph_update_newValue(kind, oldValue, diff) ==
  IF kind = "string" THEN Graph_update_string(oldValue, diff)
  ELSE IF kind = "array" THEN Graph_update_array(oldValue, diff)
  ELSE [ok |-> FALSE, v |-> oldValue]

\* update: the index is handed (node, path, oldValue, newValue)
Graph_update(g, path, diff) ==
  LET oldValue == PathAdapter_get(g, path)
      kind == ValueKind(g, path)
      new == IF diff.isOperation
             THEN [ok |-> kind = "string", v |-> ApplyDiff(oldValue, diff.op)]
             ELSE Graph_update_newValue(kind, oldValue, diff)
      g1 == PathAdapter_set(g, path, new.v)
  IN IF ~new.ok THEN [g |-> g, ok |-> FALSE, old |-> oldValue, told |-> <<>>]
     ELSE IF AnnotationIndex_select(g, path[1])
     THEN [g |-> AnnotationIndex_update(g1, g1.nodes[path[1]], path, oldValue, new.v),
           ok |-> TRUE, old |-> oldValue,
           told |-> <<Notice("index.update", path[1], path, oldValue, new.v)>>]
     ELSE [g |-> g1, ok |-> TRUE, old |-> oldValue, told |-> <<>>]

---------------------------------------------------------------------------
(* Data.Incremental: the graph that records each mutation as an operation *)

\* an update needs a string at the path
UpdateThrows(g, path) == ~Graph_contains(g, path[1]) \/ path[2] # "content"

Incremental_apply(g, op) ==
  CASE op.type = "create" -> Graph_create(g, op.node)
    [] op.type = "delete" -> Graph_delete(g, op.node.id)
    [] op.type = "set"    -> Graph_set(g, op.path, op.val)
    [] OTHER ->
         IF UpdateThrows(g, op.path) THEN [g |-> g, ok |-> FALSE, old |-> <<>>, told |-> <<>>]
         ELSE Graph_set(g, op.path, ApplyDiff(PathAdapter_get(g, op.path), op.diff))

NoOp == Op("", <<>>, Blank, <<>>, <<>>, NoDiff)

\* a call of the mutation API: [kind, node, id, path, val, diff]
Call(kind, node, path, val, d) == [kind |-> kind, node |-> node, path |-> path, val |-> val, d |-> d]

\* the operation a call records on graph g (NoOp for a delete of a missing node)
OpOfCall(g, c) ==
  CASE c.kind = "create" -> ObjectOperation_Create(c.node)
    [] c.kind = "delete" ->
         IF Graph_contains(g, c.path[1])
         THEN ObjectOperation_Delete(g.nodes[c.path[1]]) ELSE NoOp
    [] c.kind = "set" -> ObjectOperation_Set(c.path, PathAdapter_get(g, c.path), c.val)
    [] OTHER ->
         ObjectOperation_Update(c.path,
           IF c.d.kind = "insert" THEN InsertDiff(c.d.pos, c.d.str)
           ELSE DeleteDiff(PathAdapter_get(g, c.path), c.d.pos, c.d.pos + Len(c.d.str)))

\* create/delete/set/update of the incremental graph: build the op, apply it
Incremental_call(g, c) ==
  Then(OpOfCall(g, c),
       LAMBDA op :
         IF op = NoOp THEN [g |-> g, ok |-> TRUE, op |-> NoOp]
         ELSE Then(Incremental_apply(g, op),
                   LAMBDA r : [g |-> r.g, ok |-> r.ok, op |-> op]))

\* a list of operations applied in order, stopping at the first that throws
RECURSIVE ApplyOps(_, _)
ApplyOps(g, ops) ==
  IF ops = <<>> THEN [g |-> g, ok |-> TRUE]
  ELSE Then(Incremental_apply(g, Head(ops)),
            LAMBDA r : IF r.ok THEN ApplyOps(r.g, Tail(ops)) ELSE r)

---------------------------------------------------------------------------
(* DocumentChange *)

\* the app states an editor hands in as before/after: key -> value, 0 is falsy
EmptyState == [k \in {} |-> 0]
BeforeStates == {[selection |-> 1], [selection |-> 2]}

\* op.val.path of a create or delete: an annotation has a path, and so has a
\* plain object one was set on
HasPath(node) == node.type = "annotation" \/ node.path # <<>>

\* _init without the loop over the deletes
DocumentChange__init_keepsDeleted(ops) ==
  {<<ops[i].path, i>> : i \in {j \in 1..Len(ops) : ops[j].type \in {"set", "update"}}}
    \cup {<<ops[i].node.path, i>> :
            i \in {j \in 1..Len(ops) : ops[j].type \in {"create", "delete"} /\ HasPath(ops[j].node)}}

\* _init: updated holds (path, i) when the i-th op is registered under path;
\* what is registered under the id of a deleted node is dropped
DocumentChange__init(ops) ==
  {e \in {<<ops[i].path, i>> : i \in {j \in 1..Len(ops) : ops[j].type \in {"set", "update"}}}
           \cup {<<ops[i].node.path, i>> :
                   i \in {j \in 1..Len(ops) : ops[j].type \in {"create", "delete"} /\ HasPath(ops[j].node)}} :
     \A k \in 1..Len(ops) : ops[k].type = "delete" => (e[1] = <<>> \/ Head(e[1]) # ops[k].node.id)}

DocumentChange(ops, before, after) ==
  [ops |-> ops, before |-> before, after |-> after, updated |-> DocumentChange__init(ops)]

\* isAffected(path) for a full path: ops && ops.length > 0, which is the
\* undefined that updated.get returns when nothing is registered
DocumentChange_isAffected(change, path) ==
  IF \E e \in change.updated : e[1] = path THEN "true" ELSE "undefined"

RECURSIVE InvertedOps(_)
InvertedOps(ops) ==
  IF ops = <<>> THEN <<>>
  ELSE Append(InvertedOps(Tail(ops)), ObjectOperation_invert(Head(ops)))

\* invert keeping the order of the ops
DocumentChange_invert_inOrder(change) ==
  DocumentChange([i \in 1..Len(change.ops) |-> ObjectOperation_invert(change.ops[i])],
                 change.after, change.before)

DocumentChange_invert(change) ==
  DocumentChange(InvertedOps(change.ops), change.after, change.before)

---------------------------------------------------------------------------
(* The state the calls act on, as one record, so that calls compose.  A    *)
(* call returns the state it leaves, the events it emitted, in order, and  *)
(* whether it threw (ok = FALSE) and where.                                *)

World == [data |-> data, stage |-> stage, isTransacting |-> isTransacting,
          done |-> done, undone |-> undone, emitted |-> <<>>, seen |-> <<>>,
          ok |-> TRUE, at |-> "", saved |-> FALSE, cancelled |-> FALSE]

Event(name, replay) == [name |-> name, replay |-> replay]

Threw(w, where) == [w EXCEPT !.ok = FALSE, !.at = where]

---------------------------------------------------------------------------
(* TransactionDocument: the stage *)

\* create/delete/set/update on the stage: mutate the shadow graph and, while
\* the document is transacting, record the operation
Stage_call(w, c) ==
  Then(Incremental_call(w.stage.data, c),
       LAMBDA r :
         IF ~r.ok THEN Threw([w EXCEPT !.stage.data = r.g], "stage")
         ELSE IF w.isTransacting /\ r.op # NoOp
              THEN [w EXCEPT !.stage.data = r.g, !.stage.ops = Append(@, r.op)]
              ELSE [w EXCEPT !.stage.data = r.g])

\* reset: forget the recorded operations and re-sync the shadow graph
Stage_reset(w) == [w EXCEPT !.stage = [data |-> w.data, ops |-> <<>>, before |-> EmptyState]]

\* stage.apply(change): replay a change on the shadow graph
Stage_apply(w, change) ==
  Then(ApplyOps(w.stage.data, change.ops),
       LAMBDA r : IF r.ok THEN [w EXCEPT !.stage.data = r.g]
                  ELSE Threw([w EXCEPT !.stage.data = r.g], "stage"))

---------------------------------------------------------------------------
(* Document *)

\* what a listener finds in the document when it is called
Seen(w) == [data |-> w.data, done |-> w.done, undone |-> w.undone]

\* each event proxy, then the 'document:changed' listeners
Document__notifyChangeListeners(w, replay) ==
  [w EXCEPT !.emitted = @ \o <<Event("proxy:path", replay), Event("document:changed", replay)>>,
            !.seen = @ \o <<Seen(w), Seen(w)>>]

\* startTransaction without the check for an open transaction
Document_startTransaction_unguarded(w, beforeState) ==
  [w EXCEPT !.isTransacting = TRUE,
            !.stage.before = beforeState,
            !.emitted = Append(@, Event("transaction:started", FALSE))]

Document_startTransaction(w, beforeState) ==
  IF w.isTransacting THEN Threw(w, "start")
  ELSE [w EXCEPT !.isTransacting = TRUE,
                 !.stage.before = beforeState,
                 !.emitted = Append(@, Event("transaction:started", FALSE))]

\* _apply without the check for an open transaction
Document__apply_unguarded(w, change, mode) ==
  Then(IF mode = "skipStage" THEN w ELSE Stage_apply(w, change),
       LAMBDA w1 :
         IF ~w1.ok THEN w1
         ELSE Then(ApplyOps(w1.data, change.ops),
                   LAMBDA r : IF r.ok THEN [w1 EXCEPT !.data = r.g]
                              ELSE Threw([w1 EXCEPT !.data = r.g], "apply")))

\* _apply running through the operations last to first
Document__apply_backwards(w, change, mode) ==
  IF w.isTransacting THEN Threw(w, "apply")
  ELSE Then(IF mode = "skipStage" THEN w ELSE Stage_apply(w, change),
            LAMBDA w1 :
              IF ~w1.ok THEN w1
              ELSE Then(ApplyOps(w1.data, [i \in 1..Len(change.ops) |->
                                             change.ops[Len(change.ops) + 1 - i]]),
                        LAMBDA r : IF r.ok THEN [w1 EXCEPT !.data = r.g]
                                   ELSE Threw([w1 EXCEPT !.data = r.g], "apply")))

Document__apply(w, change, mode) ==
  IF w.isTransacting THEN Threw(w, "apply")
  ELSE Then(IF mode = "skipStage" THEN w ELSE Stage_apply(w, change),
            LAMBDA w1 :
              IF ~w1.ok THEN w1
              ELSE Then(ApplyOps(w1.data, change.ops),
                        LAMBDA r : IF r.ok THEN [w1 EXCEPT !.data = r.g]
                                   ELSE Threw([w1 EXCEPT !.data = r.g], "apply")))

\* _saveTransaction without the check for an open transaction
Document__saveTransaction_unguarded(w, beforeState, afterState) ==
  LET documentChange == DocumentChange(w.stage.ops, beforeState, afterState)
  IN Then(Document__apply([w EXCEPT !.isTransacting = FALSE], documentChange, "skipStage"),
          LAMBDA w1 :
            IF ~w1.ok THEN w1
            ELSE Document__notifyChangeListeners(
                   [w1 EXCEPT !.done = Append(@, documentChange), !.undone = <<>>,
                              !.saved = TRUE], FALSE))

\* _saveTransaction notifying before the change is pushed onto done
Document__saveTransaction_notifiesFirst(w, beforeState, afterState) ==
  IF ~w.isTransacting THEN Threw(w, "save")
  ELSE LET documentChange == DocumentChange(w.stage.ops, beforeState, afterState)
       IN Then(Document__apply([w EXCEPT !.isTransacting = FALSE], documentChange, "skipStage"),
               LAMBDA w1 :
                 IF ~w1.ok THEN w1
                 ELSE Then(Document__notifyChangeListeners(w1, FALSE),
                           LAMBDA w2 :
                             [w2 EXCEPT !.done = Append(@, documentChange), !.undone = <<>>,
                                        !.saved = TRUE]))

\* _saveTransaction without the wipe of the redo queue
Document__saveTransaction_keepsUndone(w, beforeState, afterState) ==
  IF ~w.isTransacting THEN Threw(w, "save")
  ELSE LET documentChange == DocumentChange(w.stage.ops, beforeState, afterState)
       IN Then(Document__apply([w EXCEPT !.isTransacting = FALSE], documentChange, "skipStage"),
               LAMBDA w1 :
                 IF ~w1.ok THEN w1
                 ELSE Document__notifyChangeListeners(
                        [w1 EXCEPT !.done = Append(@, documentChange), !.saved = TRUE], FALSE))

Document__saveTransaction(w, beforeState, afterState) ==
  IF ~w.isTransacting THEN Threw(w, "save")
  ELSE LET documentChange == DocumentChange(w.stage.ops, beforeState, afterState)
       IN Then(Document__apply([w EXCEPT !.isTransacting = FALSE], documentChange, "skipStage"),
               LAMBDA w1 :
                 IF ~w1.ok THEN w1
                 ELSE Document__notifyChangeListeners(
                        [w1 EXCEPT !.done = Append(@, documentChange), !.undone = <<>>,
                                   !.saved = TRUE], FALSE))

Document__cancelTransaction(w) ==
  IF ~w.isTransacting THEN Threw(w, "cancel")
  ELSE [w EXCEPT !.isTransacting = FALSE, !.cancelled = TRUE]

\* create/delete/set/update that reach the primary graph in a transaction too
Document_call_unstaged(w, c) ==
  Then(Stage_call(w, c),
       LAMBDA w1 :
         IF ~w1.ok THEN w1
         ELSE Then(Incremental_call(w1.data, c),
                   LAMBDA r : IF r.ok THEN [w1 EXCEPT !.data = r.g]
                              ELSE Threw([w1 EXCEPT !.data = r.g], "data")))

\* a direct call that also records itself as a change and notifies
Document_call_recorded(w, c) ==
  IF w.isTransacting THEN Stage_call(w, c)
  ELSE Then(Stage_call(w, c),
            LAMBDA w1 :
              IF ~w1.ok THEN w1
              ELSE Then(Incremental_call(w1.data, c),
                        LAMBDA r :
                          IF r.ok
                          THEN Document__notifyChangeListeners(
                                 [w1 EXCEPT !.data = r.g,
                                            !.done = Append(@, DocumentChange(<<r.op>>, EmptyState, EmptyState)),
                                            !.undone = <<>>], FALSE)
                          ELSE Threw([w1 EXCEPT !.data = r.g], "data")))

\* create/delete/set/update of the Document
Document_call(w, c) ==
  IF w.isTransacting THEN Stage_call(w, c)
  ELSE Then(Stage_call(w, c),
            LAMBDA w1 :
              IF ~w1.ok THEN w1
              ELSE Then(Incremental_call(w1.data, c),
                        LAMBDA r : IF r.ok THEN [w1 EXCEPT !.data = r.g]
                                   ELSE Threw([w1 EXCEPT !.data = r.g], "data")))

\* toJSON: node.toJSON() of every entry of the graph, keyed by id; a plain
\* object has no toJSON, the call throws
Document_toJSON(w) ==
  IF \E id \in DOMAIN w.data.nodes : w.data.nodes[id].type = ""
  THEN [ok |-> FALSE, nodes |-> EmptyGraph.nodes]
  ELSE [ok |-> TRUE, nodes |-> w.data.nodes]

\* the loop of loadSeed over seed.nodes, here a sequence of node data: delete
\* what the document has under the id, then create
RECURSIVE Document_loadNodes(_, _)
Document_loadNodes(w, nodes) ==
  IF nodes = <<>> THEN w
  ELSE Then(IF Graph_contains(w.data, Head(nodes).id)
            THEN Document_call(w, Call("delete", Blank, <<Head(nodes).id>>, <<>>, NoDiff))
            ELSE w,
            LAMBDA w1 :
              IF ~w1.ok THEN w1
              ELSE Then(Document_call(w1, Call("create", Head(nodes), <<Head(nodes).id>>, <<>>, NoDiff)),
                        LAMBDA w2 : IF ~w2.ok THEN w2 ELSE Document_loadNodes(w2, Tail(nodes))))

\* loadSeed: the nodes, then container.reset() of each container (which
\* rebuilds what the container derives) and stage.reset()
Document_loadSeed(w, seed) ==
  Then(Document_loadNodes(w, seed),
       LAMBDA w1 : IF w1.ok THEN Stage_reset(w1) ELSE w1)

\* undo inverting whatever pop returned, without the test for a change
Document_undo_unchecked(w) ==
  IF w.done = <<>> THEN Threw(w, "undo")
  ELSE Then(DocumentChange_invert(w.done[Len(w.done)]),
            LAMBDA inverted :
              Then(Document__apply([w EXCEPT !.done = SubSeq(@, 1, Len(@) - 1)], inverted, ""),
                   LAMBDA w1 :
                     IF ~w1.ok THEN w1
                     ELSE Document__notifyChangeListeners(
                            [w1 EXCEPT !.undone = Append(@, inverted)], TRUE)))

\* undo inverting the change where it lies in done instead of taking it off
Document_undo_inPlace(w) ==
  IF w.done = <<>> THEN w
  ELSE Then(DocumentChange_invert(w.done[Len(w.done)]),
            LAMBDA inverted :
              Then(Document__apply([w EXCEPT !.done[Len(w.done)] = inverted], inverted, ""),
                   LAMBDA w1 :
                     IF ~w1.ok THEN w1
                     ELSE Document__notifyChangeListeners(
                            [w1 EXCEPT !.undone = Append(@, inverted)], TRUE)))

Document_undo(w) ==
  IF w.done = <<>> THEN w
  ELSE Then(DocumentChange_invert(w.done[Len(w.done)]),
            LAMBDA inverted :
              Then(Document__apply([w EXCEPT !.done = SubSeq(@, 1, Len(@) - 1)], inverted, ""),
                   LAMBDA w1 :
                     IF ~w1.ok THEN w1
                     ELSE Document__notifyChangeListeners(
                            [w1 EXCEPT !.undone = Append(@, inverted)], TRUE)))

Document_redo(w) ==
  IF w.undone = <<>> THEN w
  ELSE Then(DocumentChange_invert(w.undone[Len(w.undone)]),
            LAMBDA inverted :
              Then(Document__apply([w EXCEPT !.undone = SubSeq(@, 1, Len(@) - 1)], inverted, ""),
                   LAMBDA w1 :
                     IF ~w1.ok THEN w1
                     ELSE Document__notifyChangeListeners(
                            [w1 EXCEPT !.done = Append(@, inverted)], TRUE)))

---------------------------------------------------------------------------
(* TransactionDocument: save, cancel, finish *)

Stage_save(w, afterState) ==
  Then(Document__saveTransaction(w, w.stage.before, afterState),
       LAMBDA w1 : IF w1.ok THEN Stage_reset(w1) ELSE w1)

\* cancel: release the document and drop what was staged
Stage_cancel(w) ==
  Then(Document__cancelTransaction(w),
       LAMBDA w1 : IF w1.ok THEN Stage_reset(w1) ELSE w1)

\* finish, alias cleanup
Stage_finish(w) == IF w.isTransacting THEN Stage_cancel(w) ELSE w

---------------------------------------------------------------------------
(* Document.transaction, after the transformation has returned or thrown *)

\* what a transformation returns: undefined, or an object with some keys
Undefined == [defined |-> FALSE, val |-> EmptyState]
Result(val) == [defined |-> TRUE, val |-> val]
Results == {Undefined, Result(EmptyState)} \cup {Result([selection |-> n]) : n \in 0..2}

\* the loop over the keys of beforeState: a falsy result[key] counts as absent
AfterState(beforeState, result) ==
  [key \in DOMAIN beforeState |->
     IF key \in DOMAIN result.val /\ result.val[key] # 0
     THEN result.val[key] ELSE beforeState[key]]

\* transaction without the finally block
Finally_absent(w) == w

\* the finally block: its exception replaces the one of the try block
Finally(w) ==
  Then(Stage_finish([w EXCEPT !.ok = TRUE]),
       LAMBDA w1 : IF w1.ok THEN [w1 EXCEPT !.ok = w.ok, !.at = w.at] ELSE w1)

\* threw: the transformation threw; otherwise it returned result
Document_transaction(w, beforeState, threw, result) ==
  Finally(
    IF threw THEN Threw(w, "transform")
    ELSE IF ~result.defined /\ DOMAIN beforeState # {} THEN Threw(w, "result")
    ELSE IF w.isTransacting THEN Stage_save(w, AfterState(beforeState, result))
    ELSE w)

---------------------------------------------------------------------------
(* The calls a client may make *)

Str(n) == [i \in 1..n |-> "x"]

CreateCalls ==
  {Call("create", TextNode(TextId, <<>>), <<TextId>>, <<>>, NoDiff)}

DeleteCalls == {Call("delete", Blank, <<id>>, <<>>, NoDiff) : id \in {TextId}}

\* a set reaches the text of t1 whether or not t1 exists
SetCalls == {Call("set", Blank, P1, Str(1), NoDiff)}

\* the updates that are in range for the text now at P1 (on the stage, which
\* every call reaches first); no call makes a text longer than MaxLen
UpdateCalls ==
  LET cur == PathAdapter_get(stage.data, P1)
      room == Len(cur) < MaxLen /\ Len(PathAdapter_get(data, P1)) < MaxLen
  IN {Call("update", Blank, P1, <<>>, InsertDiff(o, Str(1))) : o \in {i \in 0..Len(cur) : room}}
     \cup {Call("update", Blank, P1, <<>>, [kind |-> "delete", pos |-> a, str |-> Str(1)]) :
             a \in 0..(Len(cur) - 1)}

---------------------------------------------------------------------------
(* Editor and tool operations: FormEditor.insertText and delete, and the   *)
(* handlers of AnnotationTool, all of one shape: startTransaction, then in *)
(* a try block the staged calls and tx.save, tx.cleanup in the finally.    *)

\* tx.create/delete/set/update one after the other, up to the first throw
RECURSIVE Stage_calls(_, _)
Stage_calls(w, calls) ==
  IF calls = <<>> THEN w
  ELSE Then(Stage_call(w, Head(calls)),
            LAMBDA w1 : IF ~w1.ok THEN w1 ELSE Stage_calls(w1, Tail(calls)))

\* the operation without its finally block: cleanup on the normal path only
EditorOperation_noFinally(w, selection, calls, threw) ==
  Then(Document_startTransaction(w, selection),
       LAMBDA w0 :
         IF ~w0.ok THEN w0
         ELSE Then(Stage_calls(w0, calls),
                   LAMBDA w1 :
                     IF ~w1.ok THEN w1
                     ELSE IF threw = "body" THEN Threw(w1, "editor")
                     ELSE Then(Stage_save(w1, selection),
                               LAMBDA w2 :
                                 IF ~w2.ok THEN w2
                                 ELSE IF threw = "after" THEN Threw(w2, "editor")
                                 ELSE Finally(w2))))

\* threw: "body" when the code between the staged calls and tx.save throws
\* (a selection without a range, a missing method), "after" when the code
\* after tx.save throws (afterCreate, afterFusion, ...), "no" otherwise
EditorOperation(w, selection, calls, threw) ==
  Then(Document_startTransaction(w, selection),
       LAMBDA w0 :
         IF ~w0.ok THEN w0
         ELSE Finally(
                Then(Stage_calls(w0, calls),
                     LAMBDA w1 :
                       IF ~w1.ok THEN w1
                       ELSE IF threw = "body" THEN Threw(w1, "editor")
                       ELSE Then(Stage_save(w1, selection),
                                 LAMBDA w2 :
                                   IF w2.ok /\ threw = "after" THEN Threw(w2, "editor")
                                   ELSE w2))))

Throws == {"no", "body", "after"}

InsertCall == Call("update", Blank, P1, <<>>, InsertDiff(0, Str(1)))
DeleteCall == Call("update", Blank, P1, <<>>, [kind |-> "delete", pos |-> 0, str |-> Str(1)])

\* insertText: the insert, after a delete when the selection is not collapsed
FormEditor_insertText == {<<InsertCall>>, <<DeleteCall, InsertCall>>}
\* delete: one update that removes the character or the selected text
FormEditor_delete == {<<DeleteCall>>}

\* isCollapsed(): a property selection is collapsed when its offsets are
\* equal; the base Selection, and with it the null selection, answers true
Selection_isCollapsed(sel) ==
  IF sel.kind = "property" THEN sel.startOffset = sel.endOffset ELSE TRUE

\* tx.update(path, {delete: {start, end}})
DeleteTextCall(path, start, end) ==
  Call("update", Blank, path, <<>>, [kind |-> "delete", pos |-> start, str |-> Str(end - start)])

\* the calls _delete stages for tx.selection = selection on graph g of the
\* document: at the edge of the text a collapsed selection merges, which
\* does nothing; otherwise one character goes, or the selected range
FormEditor__delete(g, selection, direction) ==
  IF Selection_isCollapsed(selection)
  THEN IF \/ selection.startOffset = 0 /\ direction = "left"
          \/ selection.startOffset = Len(PathAdapter_get(g, selection.path)) /\ direction = "right"
       THEN <<>>
       ELSE IF direction = "left"
       THEN <<DeleteTextCall(selection.path, selection.startOffset - 1, selection.startOffset)>>
       ELSE <<DeleteTextCall(selection.path, selection.startOffset, selection.startOffset + 1)>>
  ELSE <<DeleteTextCall(selection.path, selection.startOffset, selection.endOffset)>>

\* the calls insertText stages: _delete(tx, 'right') when this.selection,
\* the selection the editor has stored, is not collapsed, then the insert
\* at the start of tx.selection
FormEditor_insertText_calls(g, editorSelection, textInput, selection) ==
  (IF ~Selection_isCollapsed(editorSelection)
   THEN FormEditor__delete(g, selection, "right") ELSE <<>>)
    \o <<Call("update", Blank, selection.path, <<>>, InsertDiff(selection.startOffset, textInput))>>

\* insertText(textInput, selection) of an editor whose this.selection is
\* editorSelection
FormEditor_insertTextAt(w, editorSelection, textInput, selection) ==
  EditorOperation(w, [selection |-> 1],
                  FormEditor_insertText_calls(w.data, editorSelection, textInput, selection), "no")

AnnoCreateCall == Call("create", AnnoNode(AnnoId, P1), <<AnnoId>>, <<>>, NoDiff)
AnnoDeleteCall == Call("delete", Blank, <<AnnoId>>, <<>>, NoDiff)
AnnoRangeCall == Call("set", Blank, <<AnnoId, "range">>, <<0, 0>>, NoDiff)

\* handleCreate, handleFusion, handleRemove, handleTruncate and handleExpand
AnnotationTool_handlers ==
  {<<AnnoCreateCall>>, <<AnnoDeleteCall, AnnoCreateCall>>, <<AnnoDeleteCall>>,
   <<AnnoRangeCall>>}

---------------------------------------------------------------------------
(* The state machine *)

Idle == [at |-> "idle", beforeState |-> EmptyState]

NoSnap == [state |-> "none", data |-> EmptyGraph, done |-> <<>>, undone |-> <<>>,
           notified |-> FALSE]

Notifies(w) == \E i \in 1..Len(w.emitted) : w.emitted[i].name = "document:changed"

\* the snapshot taken when a transaction opens, kept while it is open
NextSnap(w, started) ==
  IF ~w.isTransacting THEN NoSnap
  ELSE IF started
       THEN [state |-> "open", data |-> data, done |-> done, undone |-> undone,
             notified |-> FALSE]
       ELSE [snap EXCEPT !.notified = @ \/ Notifies(w)]

Init ==
  /\ data = EmptyGraph
  /\ stage = [data |-> EmptyGraph, ops |-> <<>>, before |-> EmptyState]
  /\ isTransacting = FALSE
  /\ done = <<>>
  /\ undone = <<>>
  /\ pc = Idle
  /\ snap = NoSnap

\* bounds: no text grows beyond MaxLen
Fits(g) == \A id \in DOMAIN g.nodes : Len(g.nodes[id].content) <= MaxLen

\* a call has run and left the world w
Becomes(world, started) ==
  \E w \in {world} :
    /\ Fits(w.data) /\ Fits(w.stage.data)
    /\ data' = w.data
    /\ stage' = w.stage
    /\ isTransacting' = w.isTransacting
    /\ done' = w.done
    /\ undone' = w.undone
    /\ snap' = NextSnap(w, started)

\* bounds: a transaction records at most MaxOps operations
Room == ~isTransacting \/ Len(stage.ops) < MaxOps

startTransaction(beforeState) ==
  /\ Becomes(Document_startTransaction(World, beforeState), ~isTransacting)
  /\ UNCHANGED pc

create(c) ==
  /\ Room
  /\ Becomes(Document_call(World, c), FALSE)
  /\ UNCHANGED pc

delete(c) ==
  /\ Room
  /\ Becomes(Document_call(World, c), FALSE)
  /\ UNCHANGED pc

set(c) ==
  /\ Room
  /\ Becomes(Document_call(World, c), FALSE)
  /\ UNCHANGED pc

update(c) ==
  /\ Room
  /\ Becomes(Document_call(World, c), FALSE)
  /\ UNCHANGED pc

\* tx.save(afterState)
save(afterState) ==
  /\ isTransacting => Len(done) < MaxHist
  /\ Becomes(Stage_save(World, afterState), FALSE)
  /\ UNCHANGED pc

\* tx.cleanup(), tx.finish()
cleanup ==
  /\ Becomes(Stage_finish(World), FALSE)
  /\ UNCHANGED pc

undo ==
  /\ Becomes(Document_undo(World), FALSE)
  /\ UNCHANGED pc

redo ==
  /\ Becomes(Document_redo(World), FALSE)
  /\ UNCHANGED pc

\* Document.transaction up to the call of the transformation
transactionBegin(beforeState) ==
  /\ pc.at = "idle"
  /\ Becomes(Document_startTransaction(World, beforeState), ~isTransacting)
  /\ pc' = IF isTransacting THEN pc ELSE [at |-> "transform", beforeState |-> beforeState]

\* Document.transaction from the return (or throw) of the transformation on
transactionEnd(threw, result) ==
  /\ pc.at = "transform"
  /\ (isTransacting /\ ~threw /\ result.defined) => Len(done) < MaxHist
  /\ Becomes(Document_transaction(World, pc.beforeState, threw, result), FALSE)
  /\ pc' = Idle

\* the staged calls of insertText and delete for a selection inside the text
\* now at P1: one update, or the delete of the selected character followed
\* by the insert in its place
FormEditorCalls ==
  {<<c>> : c \in UpdateCalls}
    \cup {<<c, Call("update", Blank, P1, <<>>, InsertDiff(c.d.pos, Str(1)))>> :
            c \in {u \in UpdateCalls : u.d.kind = "delete"}}

\* FormEditor.insertText and FormEditor.delete, start to end
editorOperation(selection, calls, threw) ==
  /\ Len(done) < MaxHist
  /\ Len(stage.ops) + Len(calls) <= MaxOps
  /\ Becomes(EditorOperation(World, selection, calls, threw), FALSE)
  /\ UNCHANGED pc

Next ==
  \/ \E b \in BeforeStates : startTransaction(b)
  \/ \E c \in CreateCalls : create(c)
  \/ \E c \in DeleteCalls : delete(c)
  \/ \E c \in SetCalls : set(c)
  \/ \E c \in UpdateCalls : update(c)
  \/ \E a \in BeforeStates : save(a)
  \/ cleanup
  \/ undo
  \/ redo
  \/ \E b \in BeforeStates : transactionBegin(b)
  \/ \E r \in Results : transactionEnd(FALSE, r)
  \/ transactionEnd(TRUE, Undefined)
  \/ \E b \in BeforeStates, calls \in FormEditorCalls, threw \in Throws :
       editorOperation(b, calls, threw)

Spec == Init /\ [][Next]_vars

---------------------------------------------------------------------------
(* The graph on its own: a Graph with an annotation index, driven directly *)

GraphIds == {TextId, AnnoId}
P2 == <<AnnoId, "content">>
GraphProps == {"content", "path", "range"}
GraphPaths == {<<id, prop>> : id \in GraphIds, prop \in GraphProps}

\* the values a client writes to a property
GraphValues(prop) ==
  IF prop = "path" THEN {P1, P2}
  ELSE IF prop = "range" THEN {<<0, 0>>, <<0, 1>>}
  ELSE {Str(n) : n \in 0..MaxLen}

\* node data handed to create: well-formed, without id, without type, of a
\* type that is not registered
GraphNodeData ==
  {TextNode(id, Str(n)) : id \in GraphIds, n \in 0..MaxLen}
    \cup {AnnoNode(id, p) : id \in GraphIds, p \in {P1, P2}}
    \cup {TextNode("", <<>>), AnnoNode("", P1)}
    \cup {[TextNode(id, <<>>) EXCEPT !.type = t] : id \in GraphIds, t \in {"", "figure"}}

GraphInit ==
  /\ data = EmptyGraph
  /\ stage = [data |-> EmptyGraph, ops |-> <<>>, before |-> EmptyState]
  /\ isTransacting = FALSE
  /\ done = <<>>
  /\ undone = <<>>
  /\ pc = Idle
  /\ snap = NoSnap

\* a throw leaves what the call had done by then
graphCreate(nodeData) ==
  /\ data' = Graph_create(data, nodeData).g
  /\ UNCHANGED <<stage, isTransacting, done, undone, pc, snap>>

graphDelete(nodeId) ==
  /\ data' = BareGraph_delete(data, nodeId).g
  /\ UNCHANGED <<stage, isTransacting, done, undone, pc, snap>>

documentGraphDelete(nodeId) ==
  /\ data' = Graph_delete(data, nodeId).g
  /\ UNCHANGED <<stage, isTransacting, done, undone, pc, snap>>

graphSet(path, newValue) ==
  /\ data' = Graph_set(data, path, newValue).g
  /\ UNCHANGED <<stage, isTransacting, done, undone, pc, snap>>

GraphNext ==
  \/ \E nodeData \in GraphNodeData : graphCreate(nodeData)
  \/ \E nodeId \in GraphIds : graphDelete(nodeId)
  \/ \E nodeId \in GraphIds : documentGraphDelete(nodeId)
  \/ \E path \in GraphPaths : \E newValue \in GraphValues(path[2]) : graphSet(path, newValue)

GraphSpec == GraphInit /\ [][GraphNext]_vars

---------------------------------------------------------------------------
(* The graph under update: texts and sequences changed by diffs *)

\* bounds: the longest text and the longest sequence
MaxStr == 3
MaxSeq == 2

Chars == {"a", "b"}
Elements == {TextId, "content"}

Seqs(S, n) == UNION {[1..k -> S] : k \in 0..n}

UpdateNodeData ==
  {TextNode(TextId, s) : s \in Seqs(Chars, 2)}
    \cup {AnnoNode(AnnoId, p) : p \in {P1, <<TextId>>}}

TextPath == <<TextId, "content">>
SeqPath == <<AnnoId, "path">>

\* the value held at a path, by the kind it has there
Held(kind, path) == IF ValueKind(data, path) = kind THEN PathAdapter_get(data, path) ELSE <<>>

\* string diffs in range for the text now at TextPath, none making it longer
\* than MaxStr
StringDiffs ==
  LET s == Held("string", TextPath)
  IN {StringDelete(start, end) : start \in 0..Len(s), end \in 0..Len(s)}
       \cup {StringInsert(offset, <<c>>) : offset \in {o \in 0..Len(s) : Len(s) < MaxStr}, c \in Chars}

\* sequence diffs in range for the sequence now at SeqPath
ArrayDiffs ==
  LET q == Held("array", SeqPath)
  IN {ArrayDelete(offset) : offset \in 0..(Len(q) - 1)}
       \cup {ArrayInsert(offset, e) : offset \in {o \in 0..Len(q) : Len(q) < MaxSeq}, e \in Elements}

\* a diff with no part, and a text operation
OtherDiffs == {EmptyDiff} \cup {OperationDiff(InsertDiff(0, <<c>>)) : c \in Chars}

UpdateInit == GraphInit

updateCreate(nodeData) ==
  /\ data' = Graph_create(data, nodeData).g
  /\ UNCHANGED <<stage, isTransacting, done, undone, pc, snap>>

updateDelete(nodeId) ==
  /\ data' = BareGraph_delete(data, nodeId).g
  /\ UNCHANGED <<stage, isTransacting, done, undone, pc, snap>>

updateSet(path, newValue) ==
  /\ data' = Graph_set(data, path, newValue).g
  /\ UNCHANGED <<stage, isTransacting, done, undone, pc, snap>>

\* no text grows beyond MaxStr
graphUpdate(path, diff) ==
  /\ diff.isOperation => Len(PathAdapter_get(data, path)) < MaxStr
  /\ data' = Graph_update(data, path, diff).g
  /\ UNCHANGED <<stage, isTransacting, done, undone, pc, snap>>

UpdateNext ==
  \/ \E nodeData \in UpdateNodeData : updateCreate(nodeData)
  \/ \E nodeId \in GraphIds : updateDelete(nodeId)
  \/ \E newValue \in {P1, <<TextId>>} : updateSet(SeqPath, newValue)
  \/ \E diff \in StringDiffs : graphUpdate(TextPath, diff)
  \/ \E diff \in ArrayDiffs : graphUpdate(SeqPath, diff)
  \/ \E path \in {TextPath, SeqPath}, diff \in OtherDiffs : graphUpdate(path, diff)

UpdateSpec == UpdateInit /\ [][UpdateNext]_vars

---------------------------------------------------------------------------
(* The annotation index queried: two annotations on the properties of t1 *)

\* bound: the largest character position
MaxPos == 4

AnnoId2 == "a2"
AnnoIds == {AnnoId, AnnoId2}
P3 == <<TextId, "title">>
AnnoPaths == {P1, P3}

\* ranges [aStart, aEnd] apart from each other, touching and overlapping
Ranges == {<<0, 1>>, <<1, 3>>, <<3, MaxPos>>}

IndexNodeData ==
  {[AnnoNode(id, p) EXCEPT !.range = r] : id \in AnnoIds, p \in AnnoPaths, r \in Ranges}
    \cup {TextNode(TextId, Str(n)) : n \in 0..MaxLen}

IndexInit == GraphInit

indexCreate(nodeData) ==
  /\ data' = Graph_create(data, nodeData).g
  /\ UNCHANGED <<stage, isTransacting, done, undone, pc, snap>>

indexDelete(nodeId) ==
  /\ data' = BareGraph_delete(data, nodeId).g
  /\ UNCHANGED <<stage, isTransacting, done, undone, pc, snap>>

\* a property of a node that is there is set
indexSet(path, newValue) ==
  /\ Graph_contains(data, path[1])
  /\ data' = Graph_set(data, path, newValue).g
  /\ UNCHANGED <<stage, isTransacting, done, undone, pc, snap>>

IndexNext ==
  \/ \E nodeData \in IndexNodeData : indexCreate(nodeData)
  \/ \E nodeId \in AnnoIds \cup {TextId} : indexDelete(nodeId)
  \/ \E id \in AnnoIds, p \in AnnoPaths : indexSet(<<id, "path">>, p)
  \/ \E id \in AnnoIds, r \in Ranges : indexSet(<<id, "range">>, r)

IndexSpec == IndexInit /\ [][IndexNext]_vars

---------------------------------------------------------------------------
(* Changes that hold operations on a text and on an annotation of it *)

\* create, delete and set of the text t1 and of the annotation a1
ChangeCalls ==
  {Call("create", TextNode(TextId, <<>>), <<TextId>>, <<>>, NoDiff),
   Call("create", AnnoNode(AnnoId, P1), <<AnnoId>>, <<>>, NoDiff),
   Call("delete", Blank, <<TextId>>, <<>>, NoDiff),
   Call("delete", Blank, <<AnnoId>>, <<>>, NoDiff),
   Call("set", Blank, P1, Str(1), NoDiff),
   Call("set", Blank, <<AnnoId, "path">>, P3, NoDiff)}

\* bound: the operations of one change
MaxChange == 3

\* a call made on the document, in a transaction or outside one
documentCall(c) ==
  /\ isTransacting => Len(stage.ops) < MaxChange
  /\ Becomes(Document_call(World, c), FALSE)
  /\ UNCHANGED pc

ChangeNext ==
  \/ startTransaction([selection |-> 1])
  \/ \E c \in ChangeCalls : documentCall(c)
  \/ save([selection |-> 2])
  \/ cleanup

ChangeSpec == Init /\ [][ChangeNext]_vars

---------------------------------------------------------------------------
(* A history of several changes: commits, undo and redo *)

\* bound: the changes held in done before another is committed
MaxDone == 2

\* create, delete and set of the text t1
HistoryCalls ==
  {Call("create", TextNode(TextId, <<>>), <<TextId>>, <<>>, NoDiff),
   Call("delete", Blank, <<TextId>>, <<>>, NoDiff),
   Call("set", Blank, P1, Str(1), NoDiff)}

\* a call made on the document, in a transaction or outside one
historyCall(c) ==
  /\ isTransacting => Len(stage.ops) < MaxOps
  /\ Becomes(Document_call(World, c), FALSE)
  /\ UNCHANGED pc

\* tx.save(afterState) while done has room for the change
historySave(afterState) ==
  /\ isTransacting => Len(done) < MaxDone
  /\ Becomes(Stage_save(World, afterState), FALSE)
  /\ UNCHANGED pc

HistoryNext ==
  \/ startTransaction([selection |-> 1])
  \/ \E c \in HistoryCalls : historyCall(c)
  \/ historySave([selection |-> 2])
  \/ cleanup
  \/ undo
  \/ redo

HistorySpec == Init /\ [][HistoryNext]_vars

---------------------------------------------------------------------------
(* A container and a child of it, through transactions, undo and redo *)

ContainerId == "c1"

\* create and delete of the text t1, create of the container c1 with t1 as
\* its child, and set of the children of c1 to none
ContainerCalls ==
  {Call("create", TextNode(TextId, <<>>), <<TextId>>, <<>>, NoDiff),
   Call("create", ContainerNode(ContainerId, <<TextId>>), <<ContainerId>>, <<>>, NoDiff),
   Call("delete", Blank, <<TextId>>, <<>>, NoDiff),
   Call("set", Blank, <<ContainerId, "nodes">>, <<>>, NoDiff)}

ContainerNext ==
  \/ startTransaction([selection |-> 1])
  \/ \E c \in ContainerCalls : historyCall(c)
  \/ historySave([selection |-> 2])
  \/ cleanup
  \/ undo
  \/ redo

ContainerSpec == Init /\ [][ContainerNext]_vars

---------------------------------------------------------------------------
(* Documents that are loaded from seeds *)

\* seeds: a text, and a text with an annotation on it
Seeds ==
  {<<TextNode(TextId, Str(1))>>,
   <<TextNode(TextId, <<>>), AnnoNode(AnnoId, P1)>>}

\* create and delete of the text t1, create of the annotation a1, and set of
\* the text of t1 whether or not t1 exists
SeedCalls ==
  {Call("create", TextNode(TextId, <<>>), <<TextId>>, <<>>, NoDiff),
   Call("create", AnnoNode(AnnoId, P1), <<AnnoId>>, <<>>, NoDiff),
   Call("delete", Blank, <<TextId>>, <<>>, NoDiff),
   Call("set", Blank, P1, Str(1), NoDiff)}

\* loadSeed(seed); in a transaction, before the stage has recorded anything
loadSeed(seed) ==
  /\ isTransacting => stage.ops = <<>>
  /\ Becomes(Document_loadSeed(World, seed), FALSE)
  /\ UNCHANGED pc

SeedNext ==
  \/ startTransaction([selection |-> 1])
  \/ \E c \in SeedCalls : historyCall(c)
  \/ save([selection |-> 2])
  \/ cleanup
  \/ \E seed \in Seeds : loadSeed(seed)

SeedSpec == Init /\ [][SeedNext]_vars

---------------------------------------------------------------------------
(* A graph constructed with a seed: create, delete, set, update and reset *)

\* options.seed.nodes: the text t1
Seed == <<TextNode(TextId, <<>>)>>

\* the graph after construction: the seed's nodes, and an index added after
\* them that holds nothing
ResetInit ==
  /\ data = Graph_init(EmptyGraph, Seed)
  /\ stage = [data |-> EmptyGraph, ops |-> <<>>, before |-> EmptyState]
  /\ isTransacting = FALSE
  /\ done = <<>>
  /\ undone = <<>>
  /\ pc = Idle
  /\ snap = NoSnap

graphReset ==
  /\ data' = Graph_reset(data, Seed)
  /\ UNCHANGED <<stage, isTransacting, done, undone, pc, snap>>

ResetNext ==
  \/ \E nodeData \in UpdateNodeData : updateCreate(nodeData)
  \/ \E nodeId \in GraphIds : updateDelete(nodeId)
  \/ \E newValue \in {P1, <<TextId>>} : updateSet(SeqPath, newValue)
  \/ \E diff \in StringDiffs : graphUpdate(TextPath, diff)
  \/ \E diff \in ArrayDiffs : graphUpdate(SeqPath, diff)
  \/ graphReset

ResetSpec == ResetInit /\ [][ResetNext]_vars

---------------------------------------------------------------------------
(* Properties of transactions, commit, undo and redo *)

\* the calls of the mutation API
MutationCalls == CreateCalls \cup DeleteCalls \cup SetCalls \cup UpdateCalls

\* ops[i..] applied to g one after the other
RECURSIVE Replay(_, _, _)
Replay(g, ops, i) ==
  IF i > Len(ops) THEN g ELSE Replay(Incremental_apply(g, ops[i]).g, ops, i + 1)

\* C1: startTransaction on a document that is already transacting throws and
\* changes nothing: the document stays transacting, the stage keeps its
\* before state and its recorded operations, no 'transaction:started' (nor
\* any other event) is emitted, and the primary graph and both stacks are
\* untouched.
C1_NestedStartThrows ==
  isTransacting =>
    \A b \in BeforeStates :
      \E w \in {Document_startTransaction(World, b)} :
        /\ ~w.ok
        /\ w.isTransacting
        /\ w.stage = stage
        /\ w.emitted = <<>>
        /\ w.data = data /\ w.done = done /\ w.undone = undone

\* a transaction with staged work is open and a second start, with another
\* before state, is refused
C1_Witness ==
  /\ isTransacting
  /\ stage.ops # <<>>
  /\ \E b \in BeforeStates :
       b # stage.before /\ Document_startTransaction(World, b).at = "start"

\* C2: whenever Document.transaction is inside its transformation, however
\* the call then ends (the transformation returns any result or throws, the
\* commit succeeds or throws), the document is not transacting afterwards.
C2_TransactionReleases ==
  pc.at = "transform" =>
    \A threw \in BOOLEAN, r \in Results :
      ~Document_transaction(World, pc.beforeState, threw, r).isTransacting

\* a transformation has staged work and throws: the finally block cancels
C2_Witness ==
  /\ pc.at = "transform"
  /\ isTransacting
  /\ stage.ops # <<>>
  /\ Document_transaction(World, pc.beforeState, TRUE, Undefined).cancelled

\* C3: while the document is transacting, create, delete, set and update on
\* the Document leave the primary graph (nodes, properties, indexes), done
\* and undone as they are; only the stage changes.
C3_EditsReachStageOnly ==
  isTransacting =>
    \A c \in MutationCalls :
      \E w \in {Document_call(World, c)} :
        /\ w.data = data /\ w.done = done /\ w.undone = undone
        /\ w.stage.data = Incremental_call(stage.data, c).g

\* a call made in a transaction changes the stage, whose graph then differs
\* from the primary one
C3_Witness ==
  /\ isTransacting
  /\ \E c \in MutationCalls :
       \E w \in {Document_call(World, c)} :
         w.ok /\ w.stage.data # stage.data /\ w.stage.data # data

\* C4: a transaction ended by cleanup/finish without save leaves the primary
\* graph, done and undone as they were when it started, and no change
\* notification has been or is delivered.
C4_CleanupRestores ==
  snap.state = "open" =>
    \E w \in {Stage_finish(World)} :
      /\ w.data = snap.data /\ w.done = snap.done /\ w.undone = snap.undone
      /\ ~snap.notified /\ ~Notifies(w)

\* done has grown by one change, which holds ops, before and after
Pushed(new, old, ops, before, after) ==
  /\ Len(new) = Len(old) + 1
  /\ SubSeq(new, 1, Len(old)) = old
  /\ new[Len(new)].ops = ops
  /\ new[Len(new)].before = before
  /\ new[Len(new)].after = after

\* C5: a successful commit applies exactly the operations the stage has
\* recorded, in the order recorded, to the primary graph, and appends exactly
\* one DocumentChange to done, holding those operations and the before and
\* after states given.
C5_CommitAppliesStagedOps ==
  isTransacting =>
    \A b \in BeforeStates, a \in BeforeStates :
      \E w \in {Document__saveTransaction(World, b, a)} :
        w.saved =>
          /\ w.data = Replay(data, stage.ops, 1)
          /\ Pushed(w.done, done, stage.ops, b, a)

\* two operations are staged that would also apply in the other order, with
\* another outcome, and the commit succeeds
C5_Witness ==
  /\ isTransacting
  /\ Len(stage.ops) = 2
  /\ ApplyOps(data, <<stage.ops[2], stage.ops[1]>>).ok
  /\ Replay(data, <<stage.ops[2], stage.ops[1]>>, 1) # Replay(data, stage.ops, 1)
  /\ \E b \in BeforeStates, a \in BeforeStates :
       a # b /\ Document__saveTransaction(World, b, a).saved

\* C6: a commit is atomic: either it succeeds (all staged operations applied
\* and the change pushed onto done), or the primary graph, done and undone
\* are exactly as before the commit.
C6_CommitAtomic ==
  isTransacting =>
    \A a \in BeforeStates :
      \E w \in {Stage_save(World, a)} :
        w.saved \/ (w.data = data /\ w.done = done /\ w.undone = undone)

\* C7: after a successful commit undone is empty.
C7_CommitClearsUndone ==
  isTransacting =>
    \A a \in BeforeStates :
      \E w \in {Stage_save(World, a)} : w.saved => w.undone = <<>>

\* a commit succeeds while undone holds a change
C7_Witness ==
  /\ isTransacting
  /\ undone # <<>>
  /\ stage.ops # <<>>
  /\ \E a \in BeforeStates : Stage_save(World, a).saved

\* C8: a successful commit from primary state S followed by undo returns the
\* primary graph to S.
C8_UndoRestores ==
  isTransacting =>
    \A a \in BeforeStates :
      \E w \in {Stage_save(World, a)} :
        w.saved => \E u \in {Document_undo(w)} : u.ok /\ u.data = data

\* C9: after a successful commit, undo and then redo, the primary graph
\* equals the graph right after the commit, done ends with the change that
\* was committed, and undone is as long as before the undo.
C9_UndoRedoRoundTrip ==
  isTransacting =>
    \A a \in BeforeStates :
      \E w \in {Stage_save(World, a)} :
        w.saved =>
          \E r \in {Document_redo(Document_undo(w))} :
            /\ r.ok
            /\ r.data = w.data
            /\ r.done = w.done
            /\ Len(r.undone) = Len(w.undone)

\* a commit that changes the graph is undone and redone
C9_Witness ==
  /\ isTransacting
  /\ \E a \in BeforeStates :
       \E w \in {Stage_save(World, a)} :
         /\ w.saved
         /\ w.data # data
         /\ Document_undo(w).data # w.data
         /\ Document_redo(Document_undo(w)).data = w.data

\* C10: undo with a non-empty done removes the last change of done, applies
\* its inverse, pushes the inverted change onto undone and notifies listeners
\* once with replay = true; redo does the same from undone to done; each call
\* keeps Len(done) + Len(undone) constant.
C10_UndoRedoMoveOneChange ==
  /\ done # <<>> =>
       \E w \in {Document_undo(World)} :
         /\ w.done = SubSeq(done, 1, Len(done) - 1)
         /\ w.undone = Append(undone, DocumentChange_invert(done[Len(done)]))
         /\ w.data = Replay(data, w.undone[Len(w.undone)].ops, 1)
         /\ w.emitted = <<Event("proxy:path", TRUE), Event("document:changed", TRUE)>>
         /\ Len(w.done) + Len(w.undone) = Len(done) + Len(undone)
  /\ undone # <<>> =>
       \E w \in {Document_redo(World)} :
         /\ w.undone = SubSeq(undone, 1, Len(undone) - 1)
         /\ w.done = Append(done, DocumentChange_invert(undone[Len(undone)]))
         /\ w.data = Replay(data, w.done[Len(w.done)].ops, 1)
         /\ w.emitted = <<Event("proxy:path", TRUE), Event("document:changed", TRUE)>>
         /\ Len(w.done) + Len(w.undone) = Len(done) + Len(undone)

\* the parts of a world a failed or idle call must leave alone
Untouched(w) ==
  /\ w.data = data /\ w.stage = stage /\ w.isTransacting = isTransacting
  /\ w.done = done /\ w.undone = undone /\ w.emitted = <<>>

\* C11: undo with an empty done and redo with an empty undone do not throw,
\* leave the primary graph, the stage, done and undone as they are, and
\* notify nobody.
C11_EmptyHistoryNoOp ==
  /\ done = <<>> => \E w \in {Document_undo(World)} : w.ok /\ Untouched(w)
  /\ undone = <<>> => \E w \in {Document_redo(World)} : w.ok /\ Untouched(w)

\* undo is called with nothing to undo on a document that holds a node and a
\* change to redo
C11_Witness ==
  /\ done = <<>>
  /\ undone # <<>>
  /\ data # EmptyGraph
  /\ Document_undo(World).ok

\* C12: _saveTransaction and _cancelTransaction called when no transaction
\* is open throw and change nothing; so a second save after a successful one
\* throws and pushes nothing more, and Document.transaction, reaching its end
\* after the transformation has saved or cancelled, leaves done as it is.
C12_SaveAndCancelNeedTransaction ==
  /\ ~isTransacting =>
       /\ \A b \in BeforeStates, a \in BeforeStates :
            \E w \in {Document__saveTransaction(World, b, a)} : ~w.ok /\ Untouched(w)
       /\ \E w \in {Document__cancelTransaction(World)} : ~w.ok /\ Untouched(w)
       /\ pc.at = "transform" =>
            \A r \in Results :
              Document_transaction(World, pc.beforeState, FALSE, r).done = done
  /\ isTransacting =>
       \A a \in BeforeStates :
         \E w \in {Stage_save(World, a)} :
           w.saved =>
             \A a2 \in BeforeStates :
               \E w2 \in {Stage_save(w, a2)} :
                 ~w2.ok /\ w2.done = w.done /\ w2.data = w.data /\ w2.emitted = w.emitted

\* Document.transaction is still inside a transformation that has already
\* committed a change
C12_Witness ==
  /\ pc.at = "transform"
  /\ ~isTransacting
  /\ done # <<>>
  /\ done[Len(done)].ops # <<>>
  /\ \E a \in BeforeStates : Stage_save(World, a).at = "save"

\* C13: while a transaction is open _apply throws, for either mode, and so do
\* undo and redo of a change; neither the primary graph nor the stage is
\* touched.
C13_NoReplayWhileTransacting ==
  isTransacting =>
    /\ \A i \in 1..Len(done), mode \in {"", "skipStage"} :
         \E w \in {Document__apply(World, done[i], mode)} :
           ~w.ok /\ w.data = data /\ w.stage = stage
    /\ done # <<>> =>
         \E w \in {Document_undo(World)} : ~w.ok /\ w.data = data /\ w.stage = stage
    /\ undone # <<>> =>
         \E w \in {Document_redo(World)} : ~w.ok /\ w.data = data /\ w.stage = stage

\* a transaction is open over a history whose last change would apply
C13_Witness ==
  /\ isTransacting
  /\ done # <<>>
  /\ done[Len(done)].ops # <<>>
  /\ ApplyOps(data, DocumentChange_invert(done[Len(done)]).ops).ok
  /\ Document_undo(World).at = "apply"

\* C14: whenever no transaction is open, the stage's graph (nodes, property
\* values, indexes) equals the primary graph.
C14_StageMirrorsPrimary == ~isTransacting => stage.data = data

\* what the claim says the committed after state is: the keys of beforeState,
\* each with the returned value if the result has the key
ExpectedAfterState(beforeState, result) ==
  [key \in DOMAIN beforeState |->
     IF key \in DOMAIN result.val THEN result.val[key] ELSE beforeState[key]]

\* C15: when Document.transaction commits, the after state of the change it
\* pushes has exactly the keys of beforeState, each holding the value the
\* transformation returned for that key if it returned one, else the value
\* in beforeState.
C15_AfterStateTakesResult ==
  (pc.at = "transform" /\ isTransacting) =>
    \A r \in Results :
      \E w \in {Document_transaction(World, pc.beforeState, FALSE, r)} :
        w.saved =>
          w.done[Len(w.done)].after = ExpectedAfterState(pc.beforeState, r)

\* the one round of a commit: the path proxy, then 'document:changed'
CommitRound == <<Event("proxy:path", FALSE), Event("document:changed", FALSE)>>

\* C16: a successful commit delivers exactly one notification round, the
\* event proxy before 'document:changed', and every listener of the round
\* finds the change applied to the primary graph and pushed onto done; a
\* commit that fails notifies nobody; Document.transaction has delivered the
\* round of its commit when it returns.
C16_OneRoundAfterCommit ==
  /\ isTransacting =>
       \A a \in BeforeStates :
         \E w \in {Stage_save(World, a)} :
           IF w.saved
           THEN /\ w.emitted = CommitRound
                /\ \A i \in 1..Len(w.seen) :
                     /\ w.seen[i].data = Replay(data, stage.ops, 1)
                     /\ Pushed(w.seen[i].done, done, stage.ops, stage.before, a)
           ELSE w.emitted = <<>>
  /\ (pc.at = "transform" /\ isTransacting) =>
       \A r \in Results :
         \E w \in {Document_transaction(World, pc.beforeState, FALSE, r)} :
           w.emitted = IF w.saved THEN CommitRound ELSE <<>>

\* a transaction that changes the graph is committed and its round delivered
C16_Witness ==
  /\ isTransacting
  /\ pc.at = "transform"
  /\ stage.ops # <<>>
  /\ \E a \in BeforeStates :
       \E w \in {Stage_save(World, a)} :
         w.saved /\ Len(w.seen) = 2 /\ w.seen[1].data # data

\* C17: an editor or tool operation started on a document that is not
\* transacting leaves it not transacting, whether it returns or throws (in a
\* staged call, in its own code before tx.save, in tx.save, or after it); so
\* no sequence of such operations leaves the document in TRANSACTING.
C17_EditorsRelease ==
  ~isTransacting =>
    \A b \in BeforeStates, threw \in Throws,
       calls \in FormEditor_insertText \cup FormEditor_delete \cup AnnotationTool_handlers :
      ~EditorOperation(World, b, calls, threw).isTransacting

\* on a document with a text, one operation commits, another throws in a
\* staged call and is cancelled by its finally block
C17_Witness ==
  /\ ~isTransacting
  /\ TextId \in DOMAIN data.nodes
  /\ \E b \in BeforeStates :
       /\ EditorOperation(World, b, <<InsertCall>>, "no").saved
       /\ \E w \in {EditorOperation(World, b, <<AnnoRangeCall, AnnoCreateCall>>, "no")} :
            ~w.ok /\ w.cancelled
       /\ EditorOperation(World, b, <<DeleteCall>>, "body").cancelled

---------------------------------------------------------------------------
(* Properties of the graph: create, delete, set *)

\* the cases in which create has to fail
CreateMustFail(g, nodeData) ==
  \/ Graph_contains(g, nodeData.id)
  \/ nodeData.id = ""
  \/ nodeData.type = ""
  \/ ~NodeFactory_create(nodeData)

\* C18: Graph.create throws when the id is already present, when id or type
\* is missing and when the factory makes no node; whenever it throws, the
\* graph (nodes and index) is as before and neither the didCreateNode hook
\* nor an index has been called.
C18_CreateFailureLeavesGraph ==
  \A nodeData \in GraphNodeData :
    \E r \in {Graph_create(data, nodeData)} :
      /\ CreateMustFail(data, nodeData) => ~r.ok
      /\ ~r.ok => r.g = data /\ r.told = <<>>

\* a text node t1 is present and a create of an annotation with the same id
\* is refused
C18_Witness ==
  /\ Graph_contains(data, TextId)
  /\ data.nodes[TextId].type = "text"
  /\ ~Graph_create(data, AnnoNode(TextId, P1)).ok
  /\ ~Graph_create(data, [TextNode(AnnoId, <<>>) EXCEPT !.type = "figure"]).ok

\* what delete owes for the id it is given: r is what the call returned
DeleteContract(g, nodeId, r) ==
  IF Graph_contains(g, nodeId)
  THEN /\ ~Graph_contains(r.g, nodeId)
       /\ r.told[1].what = "didDeleteNode"
       /\ \A e \in r.g.byType \cup r.g.byPath : e[2] # nodeId
  ELSE r.ok /\ r.g = g

\* C19: Graph.delete removes the node, calls didDeleteNode and takes the node
\* out of the index that selects it; for an id that is not present it does
\* not throw and changes nothing, on a graph without hooks and on the graph
\* of a Document alike.
C19_DeleteRemovesAbsentIsSilent ==
  \A nodeId \in GraphIds :
    /\ DeleteContract(data, nodeId, BareGraph_delete(data, nodeId))
    /\ DeleteContract(data, nodeId, Graph_delete(data, nodeId))

\* the part of C19 the graph without hooks keeps
C19_BareGraphDelete ==
  \A nodeId \in GraphIds : DeleteContract(data, nodeId, BareGraph_delete(data, nodeId))

\* an annotation is indexed and a delete on the graph without hooks removes
\* it; the text node is absent and deleting it changes nothing
C19_Witness ==
  /\ AnnotationIndex_select(data, AnnoId)
  /\ <<data.nodes[AnnoId].path, AnnoId>> \in data.byPath
  /\ BareGraph_delete(data, AnnoId).g.byPath = {}
  /\ ~Graph_contains(data, TextId)
  /\ BareGraph_delete(data, TextId).g = data

\* C20: Graph.set puts newValue at the path and returns the value that was
\* there; the index that selects the node is called once with (node, path,
\* newValue, oldValue) and re-keys the node when its path property was set;
\* afterwards get(path) is newValue, every other property of every node reads
\* as before and no node has gone or changed its type.
C20_SetReplacesAndReturnsOld ==
  \A path \in GraphPaths : \A newValue \in GraphValues(path[2]) :
    \E r \in {Graph_set(data, path, newValue)} :
      /\ r.ok
      /\ r.old = PathAdapter_get(data, path)
      /\ PathAdapter_get(r.g, path) = newValue
      /\ \A q \in GraphPaths \ {path} : PathAdapter_get(r.g, q) = PathAdapter_get(data, q)
      /\ \A id \in DOMAIN data.nodes :
           Graph_contains(r.g, id) /\ r.g.nodes[id].type = data.nodes[id].type
      /\ r.g.byType = data.byType
      /\ IF AnnotationIndex_select(data, path[1])
         THEN /\ r.told = <<Notice("index.update", path[1], path, newValue, r.old)>>
              /\ r.g.byPath = IF path[2] = "path"
                              THEN (data.byPath \ {<<r.old, path[1]>>}) \cup {<<newValue, path[1]>>}
                              ELSE data.byPath
         ELSE r.told = <<>> /\ r.g.byPath = data.byPath

\* an annotation indexed under P1 is moved to P2: the old path is returned
\* and the index holds the annotation under P2 only
C20_Witness ==
  /\ AnnotationIndex_select(data, AnnoId)
  /\ data.byPath = {<<P1, AnnoId>>}
  /\ Graph_set(data, <<AnnoId, "path">>, P2).old = P1
  /\ Graph_set(data, <<AnnoId, "path">>, P2).g.byPath = {<<P2, AnnoId>>}

---------------------------------------------------------------------------
(* Properties of Graph.update *)

\* the text at TextPath after the update, when t1 holds a text
UpdatedText(diff) == PathAdapter_get(Graph_update(data, TextPath, diff).g, TextPath)

\* C21: on a text s, {delete: {start, end}} with 0 <= start <= end <= len(s)
\* leaves s[0..start) followed by s[end..), and {insert: {offset, value}} with
\* 0 <= offset <= len(s) leaves s[0..offset) + value + s[offset..).
C21_StringUpdate ==
  ValueKind(data, TextPath) = "string" =>
    \E s \in {PathAdapter_get(data, TextPath)} :
      /\ \A start \in 0..Len(s) : \A end \in start..Len(s) :
           UpdatedText(StringDelete(start, end)) = SubSeq(s, 1, start) \o SubSeq(s, end + 1, Len(s))
      /\ \A offset \in 0..Len(s) : \A c \in Chars :
           UpdatedText(StringInsert(offset, <<c>>))
             = SubSeq(s, 1, offset) \o <<c>> \o SubSeq(s, offset + 1, Len(s))

\* the insert half of C21
C21_InsertSplices ==
  ValueKind(data, TextPath) = "string" =>
    \E s \in {PathAdapter_get(data, TextPath)} :
      \A offset \in 0..Len(s) : \A c \in Chars :
        UpdatedText(StringInsert(offset, <<c>>))
          = SubSeq(s, 1, offset) \o <<c>> \o SubSeq(s, offset + 1, Len(s))

\* the text is "ab": deleting [0, 1) leaves "a", the part that was to go
C21_Witness ==
  /\ ValueKind(data, TextPath) = "string"
  /\ PathAdapter_get(data, TextPath) = <<"a", "b">>
  /\ UpdatedText(StringDelete(0, 1)) = <<"a">>
  /\ UpdatedText(StringInsert(1, <<"a">>)) = <<"a", "a", "b">>

\* C22: on a sequence q, {delete: {offset}} removes the element at offset and
\* {insert: {offset, value}} puts value at offset; every other element keeps
\* its place relative to the others, and the value returned is q as it was.
C22_ArrayUpdate ==
  ValueKind(data, SeqPath) = "array" =>
    \E q \in {PathAdapter_get(data, SeqPath)} :
      /\ \A offset \in 0..(Len(q) - 1) :
           \E r \in {Graph_update(data, SeqPath, ArrayDelete(offset))} :
             \E v \in {PathAdapter_get(r.g, SeqPath)} :
               /\ r.ok /\ r.old = q
               /\ Len(v) = Len(q) - 1
               /\ \A i \in 1..Len(v) : v[i] = IF i <= offset THEN q[i] ELSE q[i + 1]
      /\ \A offset \in 0..Len(q) : \A e \in Elements :
           \E r \in {Graph_update(data, SeqPath, ArrayInsert(offset, e))} :
             \E v \in {PathAdapter_get(r.g, SeqPath)} :
               /\ r.ok /\ r.old = q
               /\ Len(v) = Len(q) + 1
               /\ v[offset + 1] = e
               /\ \A i \in 1..Len(q) : q[i] = IF i <= offset THEN v[i] ELSE v[i + 1]

\* the sequence is <<t1, content>>: deleting at 0 leaves <<content>> and
\* returns the sequence as it was
C22_Witness ==
  /\ ValueKind(data, SeqPath) = "array"
  /\ PathAdapter_get(data, SeqPath) = <<TextId, "content">>
  /\ PathAdapter_get(Graph_update(data, SeqPath, ArrayDelete(0)).g, SeqPath) = <<"content">>
  /\ Graph_update(data, SeqPath, ArrayDelete(0)).old = <<TextId, "content">>

\* plain diffs of every shape
PlainDiffs ==
  {StringDelete(0, 0), StringInsert(0, <<"a">>), ArrayDelete(0), ArrayInsert(0, TextId), EmptyDiff}

C24_UpdateRoundTrip ==
  ValueKind(data, TextPath) = "string" =>
    \E s \in {PathAdapter_get(data, TextPath)} :
      /\ \A offset \in 0..Len(s) : \A c \in Chars :
           PathAdapter_get(
             Graph_update(Graph_update(data, TextPath, StringInsert(offset, <<c>>)).g,
                          TextPath, StringDelete(offset, offset + 1)).g,
             TextPath) = s
      /\ \A start \in 0..Len(s) : \A end \in start..Len(s) :
           PathAdapter_get(
             Graph_update(Graph_update(data, TextPath, StringDelete(start, end)).g,
                          TextPath, StringInsert(start, SubSeq(s, start + 1, end))).g,
             TextPath) = s

---------------------------------------------------------------------------
(* Properties of the annotation index *)

\* the entries the index holds for node id: under its type, under its path
IndexedOnce(g, id) ==
  /\ {e \in g.byType : e[2] = id} = {<<g.nodes[id].type, id>>}
  /\ {e \in g.byPath : e[2] = id} = {<<g.nodes[id].path, id>>}

\* C25: whatever creates, deletes, sets and updates the graph has seen, every
\* annotation in it is in the index once: under its type in byType, under
\* its current path in byPath, and under no other path.
C25_IndexMatchesAnnotations ==
  \A id \in DOMAIN data.nodes :
    data.nodes[id].type = "annotation" => IndexedOnce(data, id)

\* the annotations of the graph whose path is the given one
AnnotationsAt(g, path) ==
  {id \in DOMAIN g.nodes : g.nodes[id].type = "annotation" /\ g.nodes[id].path = path}

\* a result that holds the annotation nodes ids, each as itself
NodesOf(ids) == [id \in ids |-> [node |-> TRUE, id |-> id, under |-> {}]]

\* C26: get(path, start, end) returns the annotation nodes at path with
\* aEnd >= start and aStart <= end, for every start and end from 0 on; with
\* end left out those with aEnd >= start; with both left out every
\* annotation at path.
C26_GetReturnsOverlapping ==
  \A path \in AnnoPaths :
    /\ \A start \in 0..MaxPos : \A end \in 0..MaxPos :
         AnnotationIndex_get(data, path, Arg(start), Arg(end))
           = NodesOf({id \in AnnotationsAt(data, path) :
                        data.nodes[id].range[2] >= start /\ data.nodes[id].range[1] <= end})
    /\ \A start \in 0..MaxPos :
         AnnotationIndex_get(data, path, Arg(start), Omitted)
           = NodesOf({id \in AnnotationsAt(data, path) : data.nodes[id].range[2] >= start})
    /\ AnnotationIndex_get(data, path, Omitted, Omitted) = NodesOf(AnnotationsAt(data, path))

\* C26 for the annotations picked, whatever the result holds for each
C26_GetPicksOverlapping ==
  \A path \in AnnoPaths :
    \A start \in 0..MaxPos : \A end \in 0..MaxPos :
      DOMAIN AnnotationIndex_get(data, path, Arg(start), Arg(end))
        = {id \in AnnotationsAt(data, path) :
             data.nodes[id].range[2] >= start /\ data.nodes[id].range[1] <= end}

\* a1 = [0, 1] and a2 = [3, MaxPos] on the same path: get(path, 1, 3) picks
\* both, get(path, 2, 2) none, and get(path, 0, 1) picks both although a2
\* starts after 1
C26_Witness ==
  /\ AnnotationsAt(data, P1) = AnnoIds
  /\ data.nodes[AnnoId].range = <<0, 1>>
  /\ data.nodes[AnnoId2].range = <<3, MaxPos>>
  /\ DOMAIN AnnotationIndex_get(data, P1, Arg(1), Arg(3)) = AnnoIds
  /\ DOMAIN AnnotationIndex_get(data, P1, Arg(2), Arg(2)) = {}
  /\ DOMAIN AnnotationIndex_get(data, P1, Arg(0), Arg(1)) = AnnoIds

\* C27: an annotation A at P1 whose path is set to P3 through the graph is
\* no longer in get(P1) and is in get(P3); a set of another property of A
\* leaves the index as it is.
C27_MoveReindexes ==
  \A id \in AnnotationsAt(data, P1) :
    /\ \E g \in {Graph_set(data, <<id, "path">>, P3).g} :
         /\ id \notin DOMAIN AnnotationIndex_get(g, P1, Omitted, Omitted)
         /\ id \in DOMAIN AnnotationIndex_get(g, P3, Omitted, Omitted)
         /\ AnnotationIndex_get(g, P3, Omitted, Omitted)[id] = NodesOf({id})[id]
    /\ \A r \in Ranges :
         \E g \in {Graph_set(data, <<id, "range">>, r).g} :
           g.byPath = data.byPath /\ g.byType = data.byType

\* C27 for the buckets of the index: the entry of A moves from P1 to P3
C27_MoveRekeysBuckets ==
  \A id \in AnnotationsAt(data, P1) :
    /\ \E g \in {Graph_set(data, <<id, "path">>, P3).g} :
         /\ id \notin DOMAIN AnnotationIndex_get(g, P1, Omitted, Omitted)
         /\ id \in DOMAIN AnnotationIndex_get(g, P3, Omitted, Omitted)
    /\ \A r \in Ranges :
         \E g \in {Graph_set(data, <<id, "range">>, r).g} :
           g.byPath = data.byPath /\ g.byType = data.byType

\* a1 is at P1 and a2 at P3: after the move get(P1) has no entry and get(P3)
\* has one for each
C27_Witness ==
  /\ AnnotationsAt(data, P1) = {AnnoId}
  /\ AnnotationsAt(data, P3) = {AnnoId2}
  /\ DOMAIN AnnotationIndex_get(Graph_set(data, <<AnnoId, "path">>, P3).g, P1, Omitted, Omitted) = {}
  /\ DOMAIN AnnotationIndex_get(Graph_set(data, <<AnnoId, "path">>, P3).g, P3, Omitted, Omitted) = AnnoIds

---------------------------------------------------------------------------
(* Properties of DocumentChange *)

\* the changes in done and undone, and the one a commit would build now
ChangesHeld ==
  {done[i] : i \in 1..Len(done)} \cup {undone[i] : i \in 1..Len(undone)}
    \cup {DocumentChange(stage.ops, stage.before, stage.before)}

\* the paths asked about: properties of t1 and of a1
QueryPaths == {P1, P3, <<TextId, "range">>, <<AnnoId, "path">>, <<AnnoId, "range">>}

\* the i-th op touches path: it sets or updates it, or it creates or deletes
\* an annotation of it
Touches(change, i, path) ==
  \/ change.ops[i].type \in {"set", "update"} /\ change.ops[i].path = path
  \/ /\ change.ops[i].type \in {"create", "delete"}
     /\ change.ops[i].node.type = "annotation"
     /\ change.ops[i].node.path = path

\* the k-th op deletes node id
Deletes(change, k, id) == change.ops[k].type = "delete" /\ change.ops[k].node.id = id

\* C28: isAffected(path) is true exactly when an op of the change touches
\* path, ops that a later delete of the node of path makes void (C29) set
\* aside.
C28_AffectedIffTouched ==
  \A change \in ChangesHeld : \A path \in QueryPaths :
    DocumentChange_isAffected(change, path) = "true"
      <=> \E i \in 1..Len(change.ops) :
            /\ Touches(change, i, path)
            /\ \A k \in (i + 1)..Len(change.ops) : ~Deletes(change, k, Head(path))

\* C28 for changes that delete nothing
C28_AffectedWithoutDeletes ==
  \A change \in ChangesHeld : \A path \in QueryPaths :
    (\A k \in 1..Len(change.ops) : change.ops[k].type # "delete") =>
      (DocumentChange_isAffected(change, path) = "true"
         <=> \E i \in 1..Len(change.ops) : Touches(change, i, path))

\* a committed change deletes t1, creates it again and sets its text: the
\* text is not reported as affected
C28_Witness ==
  \E i \in 1..Len(done) :
    /\ Len(done[i].ops) = 3
    /\ Deletes(done[i], 1, TextId)
    /\ done[i].ops[2].type = "create"
    /\ done[i].ops[3].type = "set"
    /\ Touches(done[i], 3, P1)
    /\ DocumentChange_isAffected(done[i], P1) # "true"
    /\ DocumentChange_isAffected(done[i], P3) # "true"

\* C29: when a change deletes node n, isAffected is not true for a path of n
\* that nothing but sets and updates before the delete have touched.
C29_DeletedNodeNotAffected ==
  \A change \in ChangesHeld : \A path \in QueryPaths :
    \A k \in 1..Len(change.ops) :
      (/\ Deletes(change, k, Head(path))
       /\ \A i \in 1..Len(change.ops) :
            Touches(change, i, path) => change.ops[i].type \in {"set", "update"} /\ i < k)
      => DocumentChange_isAffected(change, path) # "true"

\* a committed change sets the text of t1 and then deletes t1
C29_Witness ==
  \E i \in 1..Len(done) :
    /\ Len(done[i].ops) = 2
    /\ done[i].ops[1].type = "set"
    /\ Touches(done[i], 1, P1)
    /\ Deletes(done[i], 2, TextId)
    /\ DocumentChange_isAffected(done[i], P1) = "undefined"

\* the changes of old that new still holds are the ones old held
Kept(old, new) == \A i \in 1..Len(old) : i <= Len(new) => new[i] = old[i]

\* C30: no step (an operation recorded by the stage, a commit, an undo, a
\* redo) alters the ops, before, after or updated of a change that done or
\* undone holds before and after the step.
C30_HeldChangesNeverAltered ==
  [][Kept(done, done') /\ Kept(undone, undone')]_vars

\* a change is held in done and one in undone while the stage records again
C30_Witness ==
  /\ done # <<>>
  /\ undone # <<>>
  /\ isTransacting
  /\ stage.ops # <<>>

\* C31: invert gives a change whose ops are the inverses of the ops in
\* reverse order and whose before and after are swapped; inverting twice
\* gives the ops in the original order and the original before and after.
C31_InvertReversesAndSwaps ==
  \A change \in ChangesHeld :
    \E inverted \in {DocumentChange_invert(change)} :
      /\ Len(inverted.ops) = Len(change.ops)
      /\ \A i \in 1..Len(change.ops) :
           inverted.ops[i] = ObjectOperation_invert(change.ops[Len(change.ops) + 1 - i])
      /\ inverted.before = change.after
      /\ inverted.after = change.before
      /\ \E forward \in {DocumentChange_invert(inverted)} :
           /\ forward.ops = change.ops
           /\ forward.before = change.before
           /\ forward.after = change.after

\* a committed change of three ops, the first of another type than the last,
\* with a before state other than its after state
C31_Witness ==
  \E i \in 1..Len(done) :
    /\ Len(done[i].ops) = 3
    /\ done[i].ops[1].type # done[i].ops[3].type
    /\ done[i].before # done[i].after

----------------------------------------------------------------------------
(* Properties of containers *)

\* every id in the child sequence of every container of g is a node of g
ContainersResolve(g) ==
  \A id \in DOMAIN g.nodes :
    g.nodes[id].type = "container" =>
      \A i \in 1..Len(g.nodes[id].nodes) : Graph_contains(g, g.nodes[id].nodes[i])

\* C32: when the children of every container resolve in the primary graph,
\* they still resolve after a commit, after an undo and after a redo.
C32_ContainersResolveWhenCommitted ==
  ContainersResolve(data) =>
    /\ isTransacting =>
         \A a \in BeforeStates :
           \E w \in {Stage_save(World, a)} : w.saved => ContainersResolve(w.data)
    /\ ~isTransacting =>
         /\ \E w \in {Document_undo(World)} : w.ok => ContainersResolve(w.data)
         /\ \E w \in {Document_redo(World)} : w.ok => ContainersResolve(w.data)

\* the container c1 holds t1, both exist, and the open transaction has
\* deleted t1 and nothing else
C32_Witness ==
  /\ isTransacting
  /\ ContainersResolve(data)
  /\ Graph_contains(data, ContainerId)
  /\ data.nodes[ContainerId].nodes = <<TextId>>
  /\ Len(stage.ops) = 1
  /\ stage.ops[1].type = "delete"
  /\ \E a \in BeforeStates :
       \E w \in {Stage_save(World, a)} : w.saved /\ ~ContainersResolve(w.data)

----------------------------------------------------------------------------
(* Properties of loadSeed and toJSON *)

\* a document as its constructor leaves it
FreshDocument ==
  [World EXCEPT !.data = EmptyGraph,
                !.stage = [data |-> EmptyGraph, ops |-> <<>>, before |-> EmptyState],
                !.isTransacting = FALSE, !.done = <<>>, !.undone = <<>>]

\* the sequences that list every node of nodes once
Listings(nodes) ==
  {[i \in DOMAIN order |-> nodes[order[i]]] :
     order \in {o \in [1..Cardinality(DOMAIN nodes) -> DOMAIN nodes] :
                  \A i, j \in DOMAIN o : o[i] = o[j] => i = j}}

\* C33, first half: a fresh document loaded with toJSON() of this document
\* has the same node ids with equal node data.
C33_LoadSeedInvertsToJSON ==
  \E json \in {Document_toJSON(World)} :
    /\ json.ok
    /\ \A seed \in Listings(json.nodes) :
         \E w \in {Document_loadSeed(FreshDocument, seed)} :
           w.ok /\ w.data.nodes = data.nodes

\* C33, second half: loadSeed on a document with no transaction open that
\* holds a node with a seed id replaces it by the seed's data and leaves the
\* stage equal to the primary graph.
C33_LoadSeedReplaces ==
  ~isTransacting =>
    \A seed \in Seeds :
      (\E i \in 1..Len(seed) :
         Graph_contains(data, seed[i].id) /\ data.nodes[seed[i].id].type # "")
      => \E w \in {Document_loadSeed(World, seed)} :
           /\ w.ok
           /\ \A i \in 1..Len(seed) :
                Graph_contains(w.data, seed[i].id) /\ w.data.nodes[seed[i].id] = seed[i]
           /\ w.stage.data = w.data

\* C33: loadSeed is the inverse of toJSON, and on a document that holds a
\* node with a seed id it replaces that node by the seed's data and leaves
\* the stage equal to the primary graph.
C33_LoadSeed == C33_LoadSeedInvertsToJSON /\ C33_LoadSeedReplaces

\* a document of real nodes with no transaction open holds the text t1 with
\* content and the annotation a1; it loads into a fresh document from its
\* toJSON(), and loadSeed of the seed with the empty t1 replaces t1
C33_Witness ==
  /\ ~isTransacting
  /\ DOMAIN data.nodes = {TextId, AnnoId}
  /\ data.nodes[TextId] = TextNode(TextId, Str(1))
  /\ data.nodes[AnnoId].type = "annotation"
  /\ \E seed \in Listings(Document_toJSON(World).nodes) :
       Document_loadSeed(FreshDocument, seed).data.nodes = data.nodes
  /\ \E w \in {Document_loadSeed(World, <<TextNode(TextId, <<>>), AnnoNode(AnnoId, P1)>>)} :
       w.ok /\ w.data.nodes[TextId] = TextNode(TextId, <<>>) /\ w.stage.data = w.data

----------------------------------------------------------------------------
(* Properties of getAnnotationsForSelection *)

\* the property selections asked with
PropertySelections ==
  {PropertySelection(path, startOffset, endOffset) :
     path \in AnnoPaths, startOffset \in 0..MaxPos, endOffset \in 0..MaxPos}

\* no type, the type of the annotations, and a type no annotation has
TypeOptions == {"", "annotation", "strong"}

\* C34, container and table selections: the result is empty
C34_OtherSelectionsGetNothing ==
  \A kind \in {"container", "table"} : \A type \in TypeOptions :
    DOMAIN Document_getAnnotationsForSelection(data, OtherSelection(kind), type) = {}

\* C34: getAnnotationsForSelection returns nothing for a container or table
\* selection; for a property selection it returns the annotations at the
\* selection's path with aEnd >= startOffset and aStart <= endOffset, also
\* for startOffset 0, and of these the ones of options.type when it is given.
C34_AnnotationsForSelection ==
  /\ C34_OtherSelectionsGetNothing
  /\ \A sel \in PropertySelections : \A type \in TypeOptions :
       Document_getAnnotationsForSelection(data, sel, type)
         = NodesOf({id \in AnnotationsAt(data, sel.path) :
                      /\ data.nodes[id].range[2] >= sel.startOffset
                      /\ data.nodes[id].range[1] <= sel.endOffset
                      /\ type # "" => data.nodes[id].type = type})

\* a1 = [0, 1] and a2 = [3, MaxPos] at P1: the selection [0, 1] of P1 gets
\* both, the selection [2, 2] none, and with the type of the annotations
\* asked for the selection [1, 3] gets none
C34_Witness ==
  /\ AnnotationsAt(data, P1) = AnnoIds
  /\ data.nodes[AnnoId].range = <<0, 1>>
  /\ data.nodes[AnnoId2].range = <<3, MaxPos>>
  /\ DOMAIN Document_getAnnotationsForSelection(data, PropertySelection(P1, 0, 1), "") = AnnoIds
  /\ DOMAIN Document_getAnnotationsForSelection(data, PropertySelection(P1, 2, 2), "") = {}
  /\ DOMAIN Document_getAnnotationsForSelection(data, PropertySelection(P1, 1, 3), "") = AnnoIds
  /\ DOMAIN Document_getAnnotationsForSelection(data, PropertySelection(P1, 1, 3), "annotation") = {}
  /\ DOMAIN Document_getAnnotationsForSelection(data, OtherSelection("container"), "") = {}

----------------------------------------------------------------------------
(* Properties of undo and redo in an open transaction, and of direct calls *)

\* C35: undo and redo called while a transaction is open throw and leave
\* done and undone holding the changes they held, in the same order.
C35_UndoRedoInTransactionKeepHistory ==
  isTransacting =>
    /\ done # <<>> =>
         \E w \in {Document_undo(World)} : ~w.ok /\ w.done = done /\ w.undone = undone
    /\ undone # <<>> =>
         \E w \in {Document_redo(World)} : ~w.ok /\ w.done = done /\ w.undone = undone

\* a transaction is open with changes in done and in undone; undo throws and
\* done has lost a change, redo throws and undone has lost one
C35_Witness ==
  /\ isTransacting
  /\ done # <<>>
  /\ undone # <<>>
  /\ \E w \in {Document_undo(World)} : ~w.ok /\ Len(w.done) < Len(done) /\ w.undone = undone
  /\ \E w \in {Document_redo(World)} : ~w.ok /\ Len(w.undone) < Len(undone) /\ w.done = done

\* what a call that returned shows in the graph g it leaves, g0 being the
\* graph it found
Shows(c, g, g0) ==
  CASE c.kind = "create" -> Graph_contains(g, c.node.id) /\ g.nodes[c.node.id] = c.node
    [] c.kind = "delete" -> ~Graph_contains(g, c.path[1])
    [] c.kind = "set"    -> PathAdapter_get(g, c.path) = c.val
    [] OTHER             -> PathAdapter_get(g, c.path) = ApplyDiff(PathAdapter_get(g0, c.path), c.d)

\* C36: a create, delete, set or update made on the document while no
\* transaction is open shows in the primary graph when it returns, leaves
\* done and undone as they are and notifies nobody; and no call of the
\* document other than a commit, an undo or a redo changes done or undone.
C36_DirectCallsLeaveHistory ==
  /\ ~isTransacting =>
       \A c \in MutationCalls :
         \E w \in {Document_call(World, c)} :
           /\ w.ok => Shows(c, w.data, data)
           /\ w.done = done /\ w.undone = undone
           /\ w.emitted = <<>>
  /\ \A c \in MutationCalls :
       \E w \in {Document_call(World, c)} : w.done = done /\ w.undone = undone
  /\ \A b \in BeforeStates :
       \E w \in {Document_startTransaction(World, b)} : w.done = done /\ w.undone = undone
  /\ \E w \in {Stage_finish(World)} : w.done = done /\ w.undone = undone

\* no transaction is open, done holds a change, and a direct call changes
\* the primary graph
C36_Witness ==
  /\ ~isTransacting
  /\ done # <<>>
  /\ \E c \in MutationCalls :
       \E w \in {Document_call(World, c)} : w.ok /\ w.data # data /\ w.done = done

----------------------------------------------------------------------------
(* Properties of the ids a graph contains, and of its index entries *)

\* graph g contains the ids that data contains
SameIds(g) == \A id \in GraphIds : Graph_contains(g, id) = Graph_contains(data, id)

\* C37, update: update leaves the ids the graph contains as they are
C37_UpdateKeepsIds ==
  \A path \in GraphPaths : \A diff \in PlainDiffs \cup OtherDiffs :
    SameIds(Graph_update(data, path, diff).g)

\* C37: set and update leave contains(id) as it is for every id, also when
\* the first key of the path names no node.
C37_SetAndUpdateKeepIds ==
  /\ \A path \in GraphPaths : \A newValue \in GraphValues(path[2]) :
       SameIds(Graph_set(data, path, newValue).g)
  /\ C37_UpdateKeepsIds

\* the graph holds the annotation and no text: a set of the text's content
\* and updates of it are asked for
C37_Witness ==
  /\ Graph_contains(data, AnnoId)
  /\ ~Graph_contains(data, TextId)
  /\ Graph_contains(Graph_set(data, P1, Str(1)).g, TextId)
  /\ ~Graph_update(data, P1, StringInsert(0, <<"a">>)).ok

\* the ids of the nodes the index of g holds, by type and by path
IndexedIds(g) == {e[2] : e \in g.byType} \cup {e[2] : e \in g.byPath}

\* C38: every node the index holds is a node of the graph, after any
\* sequence of create, delete, set, update and reset; after reset the index
\* holds only nodes of the seed.
C38_NoStaleIndexEntries ==
  /\ IndexedIds(data) \subseteq DOMAIN data.nodes
  /\ IndexedIds(Graph_reset(data, Seed)) \subseteq {Seed[i].id : i \in 1..Len(Seed)}

\* the graph holds an annotation, its index holds it, and a reset leaves the
\* graph without the annotation
C38_Witness ==
  /\ Graph_contains(data, AnnoId)
  /\ AnnoId \in IndexedIds(data)
  /\ ~Graph_contains(Graph_reset(data, Seed), AnnoId)
  /\ AnnoId \in IndexedIds(Graph_reset(data, Seed))

----------------------------------------------------------------------------
(* Properties of a change that moves an annotation *)

\* the i-th op of change sets the path of an annotation from P1 to P3
Moves(change, i) ==
  /\ change.ops[i].type = "set"
  /\ change.ops[i].path = <<AnnoId, "path">>
  /\ change.ops[i].orig = P1
  /\ change.ops[i].val = P3

\* C39: a change with a set op that moves an annotation from P1 to P3, and
\* with no delete of the text the two paths belong to, reports P1 and P3 as
\* affected.
C39_MoveAffectsBothPaths ==
  \A change \in ChangesHeld :
    ((\E i \in 1..Len(change.ops) : Moves(change, i))
       /\ \A k \in 1..Len(change.ops) : ~Deletes(change, k, TextId))
    => /\ DocumentChange_isAffected(change, P1) = "true"
       /\ DocumentChange_isAffected(change, P3) = "true"

\* a committed change holds the move and nothing else: the path property of
\* the annotation is affected, P1 and P3 are not
C39_Witness ==
  \E i \in 1..Len(done) :
    /\ Len(done[i].ops) = 1
    /\ Moves(done[i], 1)
    /\ DocumentChange_isAffected(done[i], <<AnnoId, "path">>) = "true"
    /\ DocumentChange_isAffected(done[i], P1) = "undefined"
    /\ DocumentChange_isAffected(done[i], P3) = "undefined"

----------------------------------------------------------------------------
(* Properties of FormEditor.insertText *)

\* what an editor may have stored: the null selection it starts with, and
\* a collapsed and a spanning selection left by an earlier operation
EditorSelections ==
  {OtherSelection("null"), PropertySelection(P1, 0, 0), PropertySelection(P1, 0, 1)}

\* the selections of the text s at P1
TextSelections(s) ==
  UNION {{PropertySelection(P1, a, b) : b \in a..Len(s)} : a \in 0..Len(s)}

\* the document is at rest, its stage in step with it, and holds the text t1
AtRestWithText ==
  /\ ~isTransacting
  /\ stage.data = data
  /\ stage.ops = <<>>
  /\ Graph_contains(data, TextId)
  /\ data.nodes[TextId].type = "text"

\* the change insertText has committed replaces the selection by the text:
\* one change, with a delete of the selected range before the insert exactly
\* when the selection is not collapsed
Replaced(w, s, textInput, selection) ==
  /\ w.saved
  /\ Len(w.done) = Len(done) + 1
  /\ PathAdapter_get(w.data, P1)
       = Prefix(s, selection.startOffset) \o textInput \o Suffix(s, selection.endOffset)
  /\ Len(w.done[Len(w.done)].ops) = IF Selection_isCollapsed(selection) THEN 1 ELSE 2

\* C40: insertText(text, selection) deletes the selected range before it
\* inserts the text at its start when the selection passed in is not
\* collapsed, deletes nothing when it is collapsed, whatever selection the
\* editor has stored, and commits the whole as one change.
C40_InsertTextReplacesSelection ==
  AtRestWithText =>
    \A editorSelection \in EditorSelections :
      \A selection \in TextSelections(PathAdapter_get(data, P1)) :
        Replaced(FormEditor_insertTextAt(World, editorSelection, <<"y">>, selection),
                 PathAdapter_get(data, P1), <<"y">>, selection)

\* C40 for an editor whose stored selection is collapsed exactly when the
\* selection passed in is
C40_InsertTextWhenStoredAgrees ==
  AtRestWithText =>
    \A editorSelection \in EditorSelections :
      \A selection \in TextSelections(PathAdapter_get(data, P1)) :
        Selection_isCollapsed(editorSelection) = Selection_isCollapsed(selection)
        => Replaced(FormEditor_insertTextAt(World, editorSelection, <<"y">>, selection),
                    PathAdapter_get(data, P1), <<"y">>, selection)

\* the text is "x": an editor that has stored the null selection inserts
\* before the selected x and keeps it, and an editor that has stored a
\* spanning selection removes the x after the cursor
C40_Witness ==
  /\ AtRestWithText
  /\ PathAdapter_get(data, P1) = Str(1)
  /\ \E w \in {FormEditor_insertTextAt(World, OtherSelection("null"), <<"y">>,
                                       PropertySelection(P1, 0, 1))} :
       w.saved /\ PathAdapter_get(w.data, P1) = <<"y">> \o Str(1)
  /\ \E w \in {FormEditor_insertTextAt(World, PropertySelection(P1, 0, 1), <<"y">>,
                                       PropertySelection(P1, 0, 0))} :
       w.saved /\ PathAdapter_get(w.data, P1) = <<"y">>
  /\ \E w \in {FormEditor_insertTextAt(World, PropertySelection(P1, 0, 1), <<"y">>,
                                       PropertySelection(P1, 0, 1))} :
       w.saved /\ PathAdapter_get(w.data, P1) = <<"y">>

====
